---- MODULE Spec2Model ----
(***************************************************************************)
(* Live-patch generation of otterdog's model layer: the reconciliation of  *)
(* an expected list of repositories (with their nested environments,       *)
(* webhooks, secrets, branch protection rules and workflow settings)       *)
(* against the current list, as done by                                    *)
(* Repository.generate_live_patch_of_list, Repository.generate_live_patch, *)
(* Environment.generate_live_patch_of_list and                             *)
(* Environment.generate_live_patch.                                        *)
(*                                                                         *)
(* Field values are modelled as strings: the Python values True, False and *)
(* None are "True", "False" and "None", the UNSET sentinel is "UNSET", and *)
(* list valued fields (topics, reviewers, branch_policies) are string      *)
(* tokens such as "[]" and "[main]".                                       *)
(***************************************************************************)
EXTENDS Integers, Sequences, FiniteSets, TLC

VARIABLES
    expected_repos,  \* the expected repositories (the configuration)
    current_repos,   \* the current repositories (the live state), as in memory
    fetched_repos,   \* history: current_repos as fetched, before any call
    context,         \* the LivePatchContext
    patches,         \* the patches the handler has received, in order
    pc,              \* "start", "done", or a position inside validate_pull_request
    call,            \* the operation under way, its arguments and local variables
    outcome          \* what that operation returned, raised and asked of the provider

vars ==
    <<expected_repos, current_repos, fetched_repos, context, patches, pc, call, outcome>>

UNSET == "UNSET"

None == "None"

(***************************************************************************)
(* otterdog.utils                                                          *)
(***************************************************************************)
is_unset(value) == value = UNSET

is_set_and_valid(value) == value # UNSET /\ value # None

\* str.lower() on the strings the model uses.
Lower(s) == IF s = "ORG.github.io" THEN "org.github.io" ELSE s

\* A dict is the sequence of its entries in insertion order; an entry is
\* [key |-> k, item |-> i], i the position of the associated object in the
\* list the dict was built from.
RECURSIVE DictPut(_, _, _)
DictPut(d, k, i) ==
    IF d = <<>> THEN <<[key |-> k, item |-> i]>>
    ELSE IF Head(d).key = k THEN <<[key |-> k, item |-> i]>> \o Tail(d)
    ELSE <<Head(d)>> \o DictPut(Tail(d), k, i)

\* dict.get(k): the item, or 0 for None.
RECURSIVE DictGet(_, _)
DictGet(d, k) ==
    IF d = <<>> THEN 0
    ELSE IF Head(d).key = k THEN Head(d).item
    ELSE DictGet(Tail(d), k)

\* dict.pop(k)
RECURSIVE DictPop(_, _)
DictPop(d, k) ==
    IF d = <<>> THEN <<>>
    ELSE IF Head(d).key = k THEN Tail(d)
    ELSE <<Head(d)>> \o DictPop(Tail(d), k)

RECURSIVE DictPutAll(_, _, _)
DictPutAll(d, keys, i) ==
    IF keys = <<>> THEN d
    ELSE DictPutAll(DictPut(d, Head(keys), i), Tail(keys), i)

RECURSIVE DictPopAll(_, _)
DictPopAll(d, keys) ==
    IF keys = <<>> THEN d
    ELSE DictPopAll(DictPop(d, Head(keys)), Tail(keys))

\* associate_by_key(input_list, lambda x: x.name)
RECURSIVE associate_from(_, _, _)
associate_from(input_list, i, d) ==
    IF i > Len(input_list) THEN d
    ELSE associate_from(input_list, i + 1, DictPut(d, input_list[i].name, i))

associate_by_key(input_list) == associate_from(input_list, 1, <<>>)

(***************************************************************************)
(* Repository: fields                                                      *)
(***************************************************************************)
security_properties ==
    {"secret_scanning", "secret_scanning_push_protection",
     "dependabot_security_updates_enabled"}

unavailable_fields_in_archived_repos ==
    {"description", "homepage", "allow_auto_merge", "allow_merge_commit",
     "allow_rebase_merge", "allow_squash_merge", "allow_update_branch",
     "delete_branch_on_merge", "merge_commit_message", "merge_commit_title",
     "squash_merge_commit_message", "squash_merge_commit_title",
     "dependabot_alerts_enabled", "dependabot_security_updates_enabled",
     "secret_scanning", "secret_scanning_push_protection", "has_issues",
     "has_wiki", "has_projects"}

gh_pages_properties == {"gh_pages_source_branch", "gh_pages_source_path"}

\* The fields of Repository that are neither external_only (id, node_id),
\* model_only (aliases, post_process_template_content, auto_init) nor
\* nested_model (workflows, webhooks, secrets, branch_protection_rules,
\* environments): the fields a diff compares.
RepositoryFields ==
    {"name", "description", "homepage", "private", "has_discussions",
     "has_issues", "has_projects", "has_wiki", "is_template",
     "template_repository", "topics", "default_branch", "allow_rebase_merge",
     "allow_merge_commit", "allow_squash_merge", "allow_auto_merge",
     "delete_branch_on_merge", "allow_update_branch",
     "squash_merge_commit_title", "squash_merge_commit_message",
     "merge_commit_title", "merge_commit_message", "archived",
     "allow_forking", "web_commit_signoff_required", "secret_scanning",
     "secret_scanning_push_protection", "dependabot_alerts_enabled",
     "dependabot_security_updates_enabled", "gh_pages_build_type",
     "gh_pages_source_branch", "gh_pages_source_path"}

RepositoryNestedFields ==
    {"aliases", "workflows", "webhooks", "secrets", "branch_protection_rules",
     "environments"}

\* Repository.get_all_names
get_all_names(repo) == <<repo.name>> \o repo.aliases

\* multi_associate_by_key(input_list, Repository.get_all_names)
RECURSIVE multi_associate_from(_, _, _)
multi_associate_from(input_list, i, d) ==
    IF i > Len(input_list) THEN d
    ELSE multi_associate_from(input_list, i + 1,
                              DictPutAll(d, get_all_names(input_list[i]), i))

multi_associate_by_key(input_list) == multi_associate_from(input_list, 1, <<>>)

\* include_field_for_diff_computation without the rule for archived
\* repositories (a mutant of RepositoryIncludeFieldForDiff).
IncludeFieldIgnoringArchived(self, field) ==
    IF self.private = "True" /\ field \in security_properties THEN FALSE
    ELSE IF self.gh_pages_build_type \in {"disabled", "workflow"}
            /\ field \in gh_pages_properties
        THEN FALSE
    ELSE TRUE

\* include_field_for_diff_computation without the rule for private
\* repositories (a mutant of RepositoryIncludeFieldForDiff).
IncludeFieldIgnoringPrivate(self, field) ==
    IF self.archived = "True" /\ field \in unavailable_fields_in_archived_repos
        THEN FALSE
    ELSE IF self.gh_pages_build_type \in {"disabled", "workflow"}
            /\ field \in gh_pages_properties
        THEN FALSE
    ELSE TRUE

\* Repository.include_field_for_diff_computation
RepositoryIncludeFieldForDiff(self, field) ==
    IF self.private = "True" /\ field \in security_properties THEN FALSE
    ELSE IF self.archived = "True" /\ field \in unavailable_fields_in_archived_repos
        THEN FALSE
    ELSE IF self.gh_pages_build_type \in {"disabled", "workflow"}
            /\ field \in gh_pages_properties
        THEN FALSE
    ELSE TRUE

(***************************************************************************)
(* ModelObject.get_difference_from and LivePatch                           *)
(***************************************************************************)
Change(from_value, to_value) == [from_value |-> from_value, to_value |-> to_value]

\* expected.get_difference_from(current) over the given fields, `included`
\* being the fields include_field_for_diff_computation accepts.
get_difference_from(expected, current, fields, included) ==
    LET changed == {f \in fields \cap included :
                        ~is_unset(expected[f]) /\ expected[f] # current[f]}
    IN  [f \in changed |-> Change(current[f], expected[f])]

NoChanges == [f \in {} |-> Change(None, None)]

LivePatch(patch_type, model, expected, current, parent, changes) ==
    [patch_type |-> patch_type, model |-> model, expected |-> expected,
     current |-> current, parent |-> parent, changes |-> changes]

of_addition(model, expected, parent) ==
    LivePatch("ADD", model, expected.name, None, parent, NoChanges)

of_deletion(model, current, parent) ==
    LivePatch("REMOVE", model, None, current.name, parent, NoChanges)

of_changes(model, expected, current, changes, parent) ==
    LivePatch("CHANGE", model, expected.name, current.name, parent, changes)

(***************************************************************************)
(* Nested models without special rules (RepositoryWebhook,                 *)
(* RepositorySecret, BranchProtectionRule, RepositoryWorkflowSettings):    *)
(* an object is [name |-> key, settings |-> value of its other fields].    *)
(* An optional object is <<>> (None) or <<object>>.                        *)
(***************************************************************************)
ModelObjectFields == {"name", "settings"}

\* ModelObject.generate_live_patch
ModelObjectGenerateLivePatch(model, expected_object, current_object, parent_object) ==
    IF current_object = <<>>
    THEN <<of_addition(model, expected_object[1], parent_object.name)>>
    ELSE IF expected_object = <<>>
    THEN <<of_deletion(model, current_object[1], parent_object.name)>>
    ELSE LET modified == get_difference_from(expected_object[1], current_object[1],
                                             ModelObjectFields, ModelObjectFields)
         IN  IF DOMAIN modified # {}
             THEN <<of_changes(model, expected_object[1], current_object[1],
                               modified, parent_object.name)>>
             ELSE <<>>

\* The loop over the current objects of ModelObject.generate_live_patch_of_list;
\* st = [by_key |-> expected objects not yet matched, patches |-> handler calls].
RECURSIVE ModelObjectCurrentLoop(_, _, _, _, _, _)
ModelObjectCurrentLoop(model, expected_list, current_list, parent_object, i, st) ==
    IF i > Len(current_list) THEN st
    ELSE LET current_object == current_list[i]
             e == DictGet(st.by_key, current_object.name)
         IN  IF e = 0
             THEN ModelObjectCurrentLoop(model, expected_list, current_list,
                     parent_object, i + 1,
                     [st EXCEPT !.patches = @ \o ModelObjectGenerateLivePatch(
                         model, <<>>, <<current_object>>, parent_object)])
             ELSE ModelObjectCurrentLoop(model, expected_list, current_list,
                     parent_object, i + 1,
                     [by_key |-> DictPop(st.by_key, current_object.name),
                      patches |-> st.patches \o ModelObjectGenerateLivePatch(
                         model, <<expected_list[e]>>, <<current_object>>,
                         parent_object)])

RECURSIVE ModelObjectAddLoop(_, _, _, _, _)
ModelObjectAddLoop(model, expected_list, parent_object, by_key, i) ==
    IF i > Len(by_key) THEN <<>>
    ELSE ModelObjectGenerateLivePatch(model, <<expected_list[by_key[i].item]>>,
                                      <<>>, parent_object)
         \o ModelObjectAddLoop(model, expected_list, parent_object, by_key, i + 1)

\* ModelObject.generate_live_patch_of_list
ModelObjectGenerateLivePatchOfList(model, expected_list, current_list, parent_object) ==
    LET st == ModelObjectCurrentLoop(model, expected_list, current_list,
                  parent_object, 1,
                  [by_key |-> associate_by_key(expected_list), patches |-> <<>>])
    IN  st.patches
        \o ModelObjectAddLoop(model, expected_list, parent_object, st.by_key, 1)

(***************************************************************************)
(* Environment                                                             *)
(***************************************************************************)
EnvironmentFields ==
    {"name", "wait_timer", "reviewers", "deployment_branch_policy",
     "branch_policies"}

\* include_field_for_diff_computation without the rule for
\* branch_policies (a mutant of EnvironmentIncludeFieldForDiff).
IncludeEveryEnvironmentField(self, field) == TRUE

\* Environment.include_field_for_diff_computation
EnvironmentIncludeFieldForDiff(self, field) ==
    IF self.deployment_branch_policy # "selected" /\ field \in {"branch_policies"}
    THEN FALSE
    ELSE TRUE

\* Environment.generate_live_patch
EnvironmentGenerateLivePatch(expected_object, current_object, parent_object) ==
    IF current_object = <<>>
    THEN <<of_addition("environment", expected_object[1], parent_object.name)>>
    ELSE IF expected_object = <<>>
    THEN <<of_deletion("environment", current_object[1], parent_object.name)>>
    ELSE LET modified_env ==
                 get_difference_from(expected_object[1], current_object[1],
                     EnvironmentFields,
                     {f \in EnvironmentFields :
                         EnvironmentIncludeFieldForDiff(expected_object[1], f)})
         IN  IF DOMAIN modified_env # {}
             THEN <<of_changes("environment", expected_object[1],
                               current_object[1], modified_env, parent_object.name)>>
             ELSE <<>>

\* The iteration without the pop of the matched name (a mutant of
\* EnvironmentCurrentStep).
EnvironmentCurrentStepWithoutPop(expected_environments, current_env, parent_object, ctx, st) ==
    LET e == DictGet(st.by_name, current_env.name)
    IN  IF e = 0
        THEN IF current_env.name = "github-pages"
                /\ (\/ Lower(parent_object.name) = Lower(ctx.org_id \o ".github.io")
                    \/ parent_object.gh_pages_build_type # "disabled")
             THEN st
             ELSE [st EXCEPT !.patches = @ \o EnvironmentGenerateLivePatch(
                                  <<>>, <<current_env>>, parent_object)]
        ELSE [st EXCEPT !.patches = @ \o EnvironmentGenerateLivePatch(
                            <<expected_environments[e]>>, <<current_env>>,
                            parent_object)]

\* The iteration that removes every unmatched current environment (a mutant
\* of EnvironmentCurrentStep).
EnvironmentCurrentStepRemovingPages(expected_environments, current_env, parent_object, ctx, st) ==
    LET e == DictGet(st.by_name, current_env.name)
    IN  IF e = 0
        THEN [st EXCEPT !.patches = @ \o EnvironmentGenerateLivePatch(
                            <<>>, <<current_env>>, parent_object)]
        ELSE [by_name |-> DictPop(st.by_name, current_env.name),
              patches |-> st.patches \o EnvironmentGenerateLivePatch(
                              <<expected_environments[e]>>, <<current_env>>,
                              parent_object)]

\* One iteration of the loop over current_environments: the new
\* [by_name |-> expected_environments_by_name, patches |-> handler calls].
EnvironmentCurrentStep(expected_environments, current_env, parent_object, ctx, st) ==
    LET env_name == current_env.name
        e == DictGet(st.by_name, env_name)
    IN  IF e = 0
        THEN IF Lower(parent_object.name) = Lower(ctx.org_id \o ".github.io")
                /\ current_env.name = "github-pages"
             THEN st
             ELSE IF current_env.name = "github-pages"
                     /\ parent_object.gh_pages_build_type # "disabled"
             THEN st
             ELSE [st EXCEPT !.patches = @ \o EnvironmentGenerateLivePatch(
                                  <<>>, <<current_env>>, parent_object)]
        ELSE [by_name |-> DictPop(st.by_name, env_name),
              patches |-> st.patches \o EnvironmentGenerateLivePatch(
                              <<expected_environments[e]>>, <<current_env>>,
                              parent_object)]

RECURSIVE EnvironmentCurrentLoop(_, _, _, _, _, _)
EnvironmentCurrentLoop(expected_environments, current_environments, parent_object, ctx, i, st) ==
    IF i > Len(current_environments) THEN st
    ELSE EnvironmentCurrentLoop(expected_environments, current_environments,
             parent_object, ctx, i + 1,
             EnvironmentCurrentStep(expected_environments, current_environments[i],
                                    parent_object, ctx, st))

\* The loop over the items left in expected_environments_by_name.
RECURSIVE EnvironmentAddLoop(_, _, _, _)
EnvironmentAddLoop(expected_environments, parent_object, by_name, i) ==
    IF i > Len(by_name) THEN <<>>
    ELSE EnvironmentGenerateLivePatch(<<expected_environments[by_name[i].item]>>,
                                      <<>>, parent_object)
         \o EnvironmentAddLoop(expected_environments, parent_object, by_name, i + 1)

\* Environment.generate_live_patch_of_list
EnvironmentGenerateLivePatchOfList(expected_environments, current_environments, parent_object, ctx) ==
    LET st == EnvironmentCurrentLoop(expected_environments, current_environments,
                  parent_object, ctx, 1,
                  [by_name |-> associate_by_key(expected_environments),
                   patches |-> <<>>])
    IN  st.patches
        \o EnvironmentAddLoop(expected_environments, parent_object, st.by_name, 1)

(***************************************************************************)
(* Repository                                                              *)
(***************************************************************************)
\* The override applied whatever the new organization value is (a mutant of
\* RepositoryForceSignoff).
ForceSignoffToAnyValue(current, ctx) ==
    IF "web_commit_signoff_required" \in DOMAIN ctx.modified_org_settings
    THEN [current EXCEPT !.web_commit_signoff_required =
              ctx.modified_org_settings["web_commit_signoff_required"].to_value]
    ELSE current

\* Repository.generate_live_patch: the organization wide override of
\* current_object.web_commit_signoff_required.
RepositoryForceSignoff(current, ctx) ==
    IF "web_commit_signoff_required" \in DOMAIN ctx.modified_org_settings
       /\ ctx.modified_org_settings["web_commit_signoff_required"].to_value = "True"
    THEN [current EXCEPT !.web_commit_signoff_required =
              ctx.modified_org_settings["web_commit_signoff_required"].to_value]
    ELSE current

\* The change set as the diff computed it (a mutant of
\* RepositoryAddSourcePath).
WithoutSourcePath(expected, modified_repo) ==
    [f \in DOMAIN modified_repo |-> modified_repo[f]]

\* Repository.generate_live_patch: gh_pages_source_path joins the modified
\* data whenever gh_pages_source_branch is part of it.
RepositoryAddSourcePath(expected, modified_repo) ==
    IF "gh_pages_source_branch" \in DOMAIN modified_repo
    THEN [f \in DOMAIN modified_repo \cup {"gh_pages_source_path"} |->
              IF f = "gh_pages_source_path"
              THEN Change(expected.gh_pages_source_path, expected.gh_pages_source_path)
              ELSE modified_repo[f]]
    ELSE modified_repo

\* The change set with has_projects left in (a mutant of
\* RepositoryDropHasProjects).
KeepHasProjects(modified_repo, ctx) ==
    [f \in DOMAIN modified_repo |-> modified_repo[f]]

\* Repository.generate_live_patch: has_projects is dropped when projects are
\* disabled on organization level.
RepositoryDropHasProjects(modified_repo, ctx) ==
    LET has_organization_projects_disabled ==
            /\ "has_organization_projects" \in DOMAIN ctx.expected_org_settings
            /\ ctx.expected_org_settings["has_organization_projects"] = "False"
    IN  IF "has_projects" \in DOMAIN modified_repo /\ has_organization_projects_disabled
        THEN [f \in DOMAIN modified_repo \ {"has_projects"} |-> modified_repo[f]]
        ELSE modified_repo

\* Repository.generate_live_patch: modified_repo, computed against the
\* current object as left by RepositoryForceSignoff.
RepositoryModified(expected, current, ctx) ==
    RepositoryDropHasProjects(
        RepositoryAddSourcePath(expected,
            get_difference_from(expected, current, RepositoryFields,
                {f \in RepositoryFields : RepositoryIncludeFieldForDiff(expected, f)})),
        ctx)

\* Repository.generate_live_patch: the repository's own patch.
RepositoryOwnPatch(expected_object, current_object, ctx) ==
    IF current_object = <<>>
    THEN <<of_addition("repository", expected_object[1], None)>>
    ELSE IF expected_object = <<>>
    THEN <<of_deletion("repository", current_object[1], None)>>
    ELSE LET modified_repo ==
                 RepositoryModified(expected_object[1],
                                    RepositoryForceSignoff(current_object[1], ctx), ctx)
         IN  IF DOMAIN modified_repo # {}
             THEN <<of_changes("repository", expected_object[1], current_object[1],
                               modified_repo, None)>>
             ELSE <<>>

\* A repository that treats an archived value other than True as "not
\* archived" (a mutant of RepositoryTakesBranchProtectionRules).
TakesBranchProtectionRulesUnlessArchived(expected) == expected.archived # "True"

\* Repository.generate_live_patch: only the branch protection rules of non
\* archived repositories are taken into account.
\* Branch protection rules taken into account for every repository (a mutant
\* of RepositoryTakesBranchProtectionRules).
TakesBranchProtectionRulesAlways(expected) == expected.archived \in {"True", "False", UNSET}

RepositoryTakesBranchProtectionRules(expected) == expected.archived = "False"

WorkflowSettings(repo) == <<[name |-> None, settings |-> repo.workflows]>>

\* Repository.generate_live_patch: the patches of the nested models, for an
\* expected repository.
RepositoryNestedPatches(expected_object, current_object, ctx) ==
    LET expected == expected_object[1]
        parent_repo == IF current_object = <<>> THEN expected ELSE current_object[1]
        current_list(field) ==
            IF current_object # <<>> THEN current_object[1][field] ELSE <<>>
    IN  (IF is_set_and_valid(expected.workflows) /\ current_object # <<>>
         THEN ModelObjectGenerateLivePatch("repo_workflow_settings",
                  WorkflowSettings(expected), WorkflowSettings(current_object[1]),
                  parent_repo)
         ELSE <<>>)
        \o ModelObjectGenerateLivePatchOfList("repo_webhook", expected.webhooks,
               current_list("webhooks"), parent_repo)
        \o ModelObjectGenerateLivePatchOfList("repo_secret", expected.secrets,
               current_list("secrets"), parent_repo)
        \o EnvironmentGenerateLivePatchOfList(expected.environments,
               current_list("environments"), parent_repo, ctx)
        \o (IF RepositoryTakesBranchProtectionRules(expected)
            THEN ModelObjectGenerateLivePatchOfList("branch_protection_rule",
                     expected.branch_protection_rules,
                     current_list("branch_protection_rules"), parent_repo)
            ELSE <<>>)

\* The nested models reconciled before the repository's own patch is handed
\* over (a mutant of RepositoryGenerateLivePatch).
GenerateLivePatchNestedFirst(expected_object, current_object, ctx) ==
    IF expected_object = <<>>
    THEN RepositoryOwnPatch(expected_object, current_object, ctx)
    ELSE RepositoryNestedPatches(
                expected_object,
                IF current_object = <<>> THEN <<>>
                ELSE <<RepositoryForceSignoff(current_object[1], ctx)>>,
                ctx)
         \o RepositoryOwnPatch(expected_object, current_object, ctx)

\* The removal of a repository followed by the removal of its webhooks and
\* secrets (a mutant of RepositoryGenerateLivePatch).
GenerateLivePatchRemovingNested(expected_object, current_object, ctx) ==
    IF expected_object = <<>>
    THEN RepositoryOwnPatch(expected_object, current_object, ctx)
         \o ModelObjectGenerateLivePatchOfList("repo_webhook", <<>>,
                current_object[1].webhooks, current_object[1])
         \o ModelObjectGenerateLivePatchOfList("repo_secret", <<>>,
                current_object[1].secrets, current_object[1])
    ELSE RepositoryOwnPatch(expected_object, current_object, ctx)
         \o RepositoryNestedPatches(
                expected_object,
                IF current_object = <<>> THEN <<>>
                ELSE <<RepositoryForceSignoff(current_object[1], ctx)>>,
                ctx)

\* Repository.generate_live_patch: the handler calls, in order.
RepositoryGenerateLivePatch(expected_object, current_object, ctx) ==
    IF expected_object = <<>>
    THEN RepositoryOwnPatch(expected_object, current_object, ctx)
    ELSE RepositoryOwnPatch(expected_object, current_object, ctx)
         \o RepositoryNestedPatches(
                expected_object,
                IF current_object = <<>> THEN <<>>
                ELSE <<RepositoryForceSignoff(current_object[1], ctx)>>,
                ctx)

\* The override applied to every current repository, with or without an
\* expected counterpart (a mutant of RepositoryCurrentAfter).
CurrentAfterForcingUnmatched(expected_object, current_object, ctx) ==
    IF current_object = <<>>
    THEN current_object
    ELSE <<RepositoryForceSignoff(current_object[1], ctx)>>

\* Repository.generate_live_patch: the current object after the call.
RepositoryCurrentAfter(expected_object, current_object, ctx) ==
    IF expected_object = <<>> \/ current_object = <<>>
    THEN current_object
    ELSE <<RepositoryForceSignoff(current_object[1], ctx)>>

\* The iteration popping the matched repository under the current name
\* only, not under all of its names (a mutant of RepositoryCurrentStep).
RepositoryCurrentStepPoppingOneName(expected_list, current_repo, ctx, st) ==
    LET e == DictGet(st.by_all_names, current_repo.name)
    IN  IF e = 0
        THEN [st EXCEPT
                !.patches = @ \o RepositoryGenerateLivePatch(<<>>, <<current_repo>>, ctx),
                !.current = @ \o RepositoryCurrentAfter(<<>>, <<current_repo>>, ctx)]
        ELSE [by_all_names |-> DictPop(st.by_all_names, current_repo.name),
              by_name |-> DictPop(st.by_name, expected_list[e].name),
              patches |-> st.patches \o RepositoryGenerateLivePatch(
                              <<expected_list[e]>>, <<current_repo>>, ctx),
              current |-> st.current \o RepositoryCurrentAfter(
                              <<expected_list[e]>>, <<current_repo>>, ctx)]

\* One iteration of the loop over current_repos;
\* st = [by_all_names |-> expected_repos_by_all_names,
\*       by_name |-> expected_repos_by_name, patches |-> handler calls,
\*       current |-> the current repositories as left by the calls].
RepositoryCurrentStep(expected_list, current_repo, ctx, st) ==
    LET current_repo_name == current_repo.name
        e == DictGet(st.by_all_names, current_repo_name)
    IN  IF e = 0
        THEN [st EXCEPT
                !.patches = @ \o RepositoryGenerateLivePatch(<<>>, <<current_repo>>, ctx),
                !.current = @ \o RepositoryCurrentAfter(<<>>, <<current_repo>>, ctx)]
        ELSE [by_all_names |-> DictPopAll(st.by_all_names,
                                          get_all_names(expected_list[e])),
              by_name |-> DictPop(st.by_name, expected_list[e].name),
              patches |-> st.patches \o RepositoryGenerateLivePatch(
                              <<expected_list[e]>>, <<current_repo>>, ctx),
              current |-> st.current \o RepositoryCurrentAfter(
                              <<expected_list[e]>>, <<current_repo>>, ctx)]

RECURSIVE RepositoryCurrentLoop(_, _, _, _, _)
RepositoryCurrentLoop(expected_list, current_list, ctx, i, st) ==
    IF i > Len(current_list) THEN st
    ELSE RepositoryCurrentLoop(expected_list, current_list, ctx, i + 1,
             RepositoryCurrentStep(expected_list, current_list[i], ctx, st))

\* The loop over the items left in expected_repos_by_name.
RECURSIVE RepositoryAddLoop(_, _, _, _)
RepositoryAddLoop(expected_list, ctx, by_name, i) ==
    IF i > Len(by_name) THEN <<>>
    ELSE RepositoryGenerateLivePatch(<<expected_list[by_name[i].item]>>, <<>>, ctx)
         \o RepositoryAddLoop(expected_list, ctx, by_name, i + 1)

\* The additions handed over before the changes and removals (a mutant of
\* RepositoryGenerateLivePatchOfList).
GenerateLivePatchOfListAdditionsFirst(expected_list, current_list, ctx) ==
    LET st == RepositoryCurrentLoop(expected_list, current_list, ctx, 1,
                  [by_all_names |-> multi_associate_by_key(expected_list),
                   by_name |-> associate_by_key(expected_list),
                   patches |-> <<>>, current |-> <<>>])
    IN  [patches |-> RepositoryAddLoop(expected_list, ctx, st.by_name, 1)
                     \o st.patches,
         current |-> st.current]

\* Repository.generate_live_patch_of_list:
\* [patches |-> handler calls in order, current |-> current_repos afterwards].
RepositoryGenerateLivePatchOfList(expected_list, current_list, ctx) ==
    LET st == RepositoryCurrentLoop(expected_list, current_list, ctx, 1,
                  [by_all_names |-> multi_associate_by_key(expected_list),
                   by_name |-> associate_by_key(expected_list),
                   patches |-> <<>>, current |-> <<>>])
    IN  [patches |-> st.patches
                     \o RepositoryAddLoop(expected_list, ctx, st.by_name, 1),
         current |-> st.current]

(***************************************************************************)
(* The inputs: bounded sets of repositories, environments and contexts     *)
(***************************************************************************)
\* Largest number of settings (repository fields, organization settings)
\* that are given a value other than the default one in InitFields.
MaxFocus == 2

\* Longest list of repositories in InitList.
MaxRepos == 2

\* Longest list of environments in InitEnvironments.
MaxEnvs == 2

BoolFields ==
    {"private", "has_discussions", "has_issues", "has_projects", "has_wiki",
     "is_template", "allow_rebase_merge", "allow_merge_commit",
     "allow_squash_merge", "allow_auto_merge", "delete_branch_on_merge",
     "allow_update_branch", "archived", "allow_forking",
     "web_commit_signoff_required", "dependabot_alerts_enabled",
     "dependabot_security_updates_enabled"}

\* The values a field takes in the inputs, the default one first.
FieldValues(f) ==
    IF f \in BoolFields THEN <<"False", "True">>
    ELSE IF f \in {"secret_scanning", "secret_scanning_push_protection"}
        THEN <<"disabled", "enabled">>
    ELSE IF f = "gh_pages_build_type" THEN <<"legacy", "disabled", "workflow">>
    ELSE IF f = "gh_pages_source_branch" THEN <<"main", "gh-pages">>
    ELSE IF f = "gh_pages_source_path" THEN <<"/", "/docs">>
    ELSE IF f = "topics" THEN <<"[]", "[a]">>
    ELSE IF f \in {"description", "homepage", "template_repository"}
        THEN <<None, "a">>
    ELSE <<"a", "b">>

DefaultRepository(name) ==
    [f \in RepositoryFields \cup RepositoryNestedFields |->
        IF f = "name" THEN name
        ELSE IF f = "workflows" THEN "wf-a"
        ELSE IF f \in RepositoryNestedFields THEN <<>>
        ELSE FieldValues(f)[1]]

DefaultContext ==
    [org_id |-> "org",
     modified_org_settings |-> [k \in {} |-> Change(None, None)],
     expected_org_settings |-> [k \in {} |-> None]]

Range(seq) == {seq[i] : i \in DOMAIN seq}

\* The fields whose expected value is drawn from all the field's values and
\* UNSET and whose current value from the first two; the expected value of
\* another field is its second value or UNSET, the current one the default.
FullFields ==
    {"private", "archived", "web_commit_signoff_required", "has_projects",
     "gh_pages_build_type"}

\* The settings InitFields varies, in a fixed order.
FocusItems ==
    <<"org.web_commit_signoff_required", "org.has_organization_projects",
      "description", "homepage", "private", "has_discussions",
      "has_issues", "has_projects", "has_wiki", "is_template",
      "template_repository", "topics", "default_branch", "allow_rebase_merge",
      "allow_merge_commit", "allow_squash_merge", "allow_auto_merge",
      "delete_branch_on_merge", "allow_update_branch",
      "squash_merge_commit_title", "squash_merge_commit_message",
      "merge_commit_title", "merge_commit_message", "archived",
      "allow_forking", "web_commit_signoff_required", "secret_scanning",
      "secret_scanning_push_protection", "dependabot_alerts_enabled",
      "dependabot_security_updates_enabled", "gh_pages_build_type",
      "gh_pages_source_branch", "gh_pages_source_path">>

\* The <<expected value, current value>> pairs of a focused item; for an
\* organization setting, <<value, value>>.
FocusOptions(item) ==
    IF item = "org.web_commit_signoff_required"
    THEN {<<"True", "True">>, <<"False", "False">>}
    ELSE IF item = "org.has_organization_projects"
    THEN {<<"True", "True">>, <<"False", "False">>, <<UNSET, UNSET>>}
    ELSE LET v == FieldValues(item)
         IN  IF item \in FullFields
             THEN ((Range(v) \cup {UNSET}) \X {v[1], v[2]}) \ {<<v[1], v[1]>>}
             ELSE {<<v[2], v[1]>>, <<UNSET, v[1]>>}

\* A slot of the focus: <<0, ...>> is empty, <<j, option>> sets FocusItems[j].
FocusSlots ==
    {<<0, <<None, None>>>>}
    \cup UNION {{<<j, o>> : o \in FocusOptions(FocusItems[j])} : j \in DOMAIN FocusItems}

\* The focus is MaxFocus slots: the set items in the order of FocusItems,
\* then the empty slots.
IsFocus(focus) ==
    \A i \in 1 .. MaxFocus - 1 :
        focus[i + 1][1] = 0 \/ (focus[i][1] # 0 /\ focus[i][1] < focus[i + 1][1])

\* A repository, the expected one (side 1) or the current one (side 2),
\* with the focused fields set.
RECURSIVE FocusRepository(_, _, _)
FocusRepository(repo, focus, side) ==
    IF focus = <<>> \/ Head(focus)[1] = 0 THEN repo
    ELSE LET item == FocusItems[Head(focus)[1]]
         IN  FocusRepository(
                 IF item \in RepositoryFields
                 THEN [repo EXCEPT ![item] = Head(focus)[2][side]]
                 ELSE repo,
                 Tail(focus), side)

RECURSIVE FocusContext(_, _)
FocusContext(ctx, focus) ==
    IF focus = <<>> \/ Head(focus)[1] = 0 THEN ctx
    ELSE LET item == FocusItems[Head(focus)[1]]
             v == Head(focus)[2][1]
         IN  FocusContext(
                 IF item = "org.web_commit_signoff_required"
                 THEN [ctx EXCEPT !.modified_org_settings =
                          [k \in {"web_commit_signoff_required"} |->
                              Change(IF v = "True" THEN "False" ELSE "True", v)]]
                 ELSE IF item = "org.has_organization_projects"
                 THEN [ctx EXCEPT !.expected_org_settings =
                          [k \in {"has_organization_projects"} |-> v]]
                 ELSE ctx,
                 Tail(focus))

\* One expected and one current repository of the same name, any settings.
InitFields ==
    \E focus \in {f \in [1 .. MaxFocus -> FocusSlots] : IsFocus(f)} :
        /\ expected_repos = <<FocusRepository(DefaultRepository("x"), focus, 1)>>
        /\ current_repos = <<FocusRepository(DefaultRepository("x"), focus, 2)>>
        /\ context = FocusContext(DefaultContext, focus)

\* The sequences without repetition of at most n elements of S.
RECURSIVE SeqsUpTo(_, _)
SeqsUpTo(S, n) ==
    IF n = 0 THEN {<<>>}
    ELSE LET shorter == SeqsUpTo(S, n - 1)
         IN  shorter \cup UNION {{Append(s, x) : x \in S \ Range(s)} :
                                 s \in {t \in shorter : Len(t) = n - 1}}

NestedObject(name, settings) == [name |-> name, settings |-> settings]

\* A repository with or without a counterpart, and the nested models of
\* both: workflow settings, at most one webhook, secret, branch protection
\* rule and environment on each side.
InitNested ==
    \E presence \in {"both", "expected", "current"},
       archived \in {"False", "True", UNSET},
       workflows \in {UNSET, "wf-a", "wf-b"},
       ew, es, eb \in {<<>>, <<NestedObject("k", "b")>>},
       cw, cs, cb \in {<<>>, <<NestedObject("k", "a")>>},
       ee, ce \in BOOLEAN :
        LET env(wait_timer) ==
                [name |-> "dev", wait_timer |-> wait_timer, reviewers |-> "[]",
                 deployment_branch_policy |-> "all", branch_policies |-> "[]"]
            expected ==
                [DefaultRepository("x") EXCEPT
                    !.archived = archived, !.workflows = workflows,
                    !.webhooks = ew, !.secrets = es,
                    !.branch_protection_rules = eb,
                    !.environments = IF ee THEN <<env("30")>> ELSE <<>>]
            current ==
                [DefaultRepository("x") EXCEPT
                    !.webhooks = cw, !.secrets = cs,
                    !.branch_protection_rules = cb,
                    !.environments = IF ce THEN <<env("0")>> ELSE <<>>]
        IN  /\ expected_repos = IF presence = "current" THEN <<>> ELSE <<expected>>
            /\ current_repos = IF presence = "expected" THEN <<>> ELSE <<current>>
            /\ context = DefaultContext

EnvironmentNames == {"github-pages", "dev", "prod"}

\* <<deployment_branch_policy, branch_policies, wait_timer>>
EnvironmentShapes ==
    {<<"all", "[]", "0">>, <<"all", "[main]", UNSET>>, <<"selected", "[main]", "30">>}

Environment(name, shape) ==
    [name |-> name, wait_timer |-> shape[3], reviewers |-> "[]",
     deployment_branch_policy |-> shape[1], branch_policies |-> shape[2]]

ExpectedEnvironments ==
    {Environment(n, s) : n \in EnvironmentNames, s \in EnvironmentShapes}

\* The current environments have a wait timer.
CurrentEnvironments == {e \in ExpectedEnvironments : e.wait_timer # UNSET}

UniqueNames(list) ==
    \A i, j \in DOMAIN list : list[i].name = list[j].name => i = j

\* The lists of at most MaxEnvs environments, a name at most once in a list.
EnvironmentLists(environments) ==
    {l \in SeqsUpTo(environments, MaxEnvs) : UniqueNames(l)}

\* <<name, expected gh_pages_build_type, current gh_pages_build_type>>
PagesRepositories ==
    {<<"x", "legacy", "legacy">>, <<"x", "disabled", "disabled">>,
     <<"x", "disabled", "legacy">>, <<"x", "legacy", "disabled">>,
     <<"ORG.github.io", "disabled", "disabled">>}

\* One repository (the organization site or another one, GitHub Pages on or
\* off on each side) with any expected and current environments.
InitEnvironments ==
    \E repo \in PagesRepositories,
       ee \in EnvironmentLists(ExpectedEnvironments),
       ce \in EnvironmentLists(CurrentEnvironments) :
        /\ expected_repos =
               <<[DefaultRepository(repo[1]) EXCEPT !.gh_pages_build_type = repo[2],
                                                    !.environments = ee]>>
        /\ current_repos =
               <<[DefaultRepository(repo[1]) EXCEPT !.gh_pages_build_type = repo[3],
                                                    !.environments = ce]>>
        /\ context = DefaultContext

RepositoryNames == {"x", "y", "z"}

\* The expected repositories of InitList: a name, at most one alias, a
\* description and at most one environment.
ExpectedRepositories ==
    {[DefaultRepository(n) EXCEPT !.aliases = a, !.description = d] :
        n \in RepositoryNames,
        a \in {<<>>} \cup {<<m>> : m \in RepositoryNames},
        d \in {None, "a"}}

\* The current repositories of InitList: as fetched (no alias), or equal to
\* an expected one.
CurrentRepositories ==
    {r \in ExpectedRepositories : r.aliases = <<>>}

\* No name or alias occurs twice among the names and aliases of the list.
UniqueAllNames(list) ==
    /\ \A i \in DOMAIN list :
          \A k, l \in DOMAIN get_all_names(list[i]) :
              get_all_names(list[i])[k] = get_all_names(list[i])[l] => k = l
    /\ \A i, j \in DOMAIN list :
          i # j => Range(get_all_names(list[i])) \cap Range(get_all_names(list[j])) = {}

\* One repository that may differ in has_projects and in has_wiki, archived
\* or not, under each state of the organization's has_organization_projects.
InitProjects ==
    \E org \in {"absent", "True", "False", UNSET},
       expected_has_projects \in {"True", "False", UNSET},
       current_has_projects \in {"True", "False"},
       has_wiki, archived \in {"False", "True"} :
        /\ expected_repos =
               <<[DefaultRepository("x") EXCEPT
                     !.has_projects = expected_has_projects,
                     !.has_wiki = has_wiki, !.archived = archived]>>
        /\ current_repos =
               <<[DefaultRepository("x") EXCEPT
                     !.has_projects = current_has_projects]>>
        /\ context =
               IF org = "absent" THEN DefaultContext
               ELSE [DefaultContext EXCEPT !.expected_org_settings =
                        [k \in {"has_organization_projects"} |-> org]]

\* Lists of at most MaxRepos expected and current repositories.
InitList ==
    \E el \in {l \in SeqsUpTo(ExpectedRepositories, MaxRepos) : UniqueAllNames(l)},
       cl \in {l \in SeqsUpTo(CurrentRepositories, MaxRepos) : UniqueNames(l)},
       same \in BOOLEAN :
        /\ expected_repos = el
        /\ current_repos = IF same THEN el ELSE cl
        /\ context = DefaultContext

(***************************************************************************)
(* The state machine                                                       *)
(***************************************************************************)
\* No provider-facing operation is under way.
NoCall == [op |-> "none"]

\* No result yet, and nothing asked of the provider.
NoOutcome == [result |-> [state |-> "none"], calls |-> <<>>]

\* One repository with one environment that may differ in its
\* deployment_branch_policy, branch_policies and wait_timer.
InitBranchPolicies ==
    \E expected_policy \in {"all", "protected", "selected", UNSET},
       expected_branch_policies \in {"[]", "[main]", UNSET},
       expected_wait_timer \in {"0", "30"},
       current_policy \in {"all", "selected"},
       current_branch_policies \in {"[]", "[main]", "[dev]"} :
        /\ expected_repos =
               <<[DefaultRepository("x") EXCEPT !.environments =
                     <<[name |-> "dev", wait_timer |-> expected_wait_timer,
                        reviewers |-> "[]",
                        deployment_branch_policy |-> expected_policy,
                        branch_policies |-> expected_branch_policies]>>]>>
        /\ current_repos =
               <<[DefaultRepository("x") EXCEPT !.environments =
                     <<[name |-> "dev", wait_timer |-> "0", reviewers |-> "[]",
                        deployment_branch_policy |-> current_policy,
                        branch_policies |-> current_branch_policies]>>]>>
        /\ context = DefaultContext

\* Current repositories with and without a counterpart (by name or through
\* an alias) while the organization's web_commit_signoff_required is
\* modified, to True or to False.
InitSignoff ==
    \E expected_signoff \in {"True", "False", UNSET},
       presence \in {"none", "name", "alias"},
       cl \in {l \in SeqsUpTo({[DefaultRepository(n) EXCEPT
                                   !.web_commit_signoff_required = s] :
                                   n \in {"x", "z"}, s \in {"True", "False"}},
                              MaxRepos) : l # <<>> /\ UniqueNames(l)},
       to_value \in {"True", "False"} :
        /\ expected_repos =
               IF presence = "none" THEN <<>>
               ELSE IF presence = "name"
               THEN <<[DefaultRepository("x") EXCEPT
                          !.web_commit_signoff_required = expected_signoff]>>
               ELSE <<[DefaultRepository("y") EXCEPT
                          !.aliases = <<"x">>,
                          !.web_commit_signoff_required = expected_signoff]>>
        /\ current_repos = cl
        /\ context = [DefaultContext EXCEPT !.modified_org_settings =
                         [k \in {"web_commit_signoff_required"} |->
                             Change(IF to_value = "True" THEN "False" ELSE "True",
                                    to_value)]]

Init ==
    /\ \/ InitFields
       \/ InitNested
       \/ InitEnvironments
       \/ InitList
       \/ InitProjects
       \/ InitBranchPolicies
       \/ InitSignoff
    /\ fetched_repos = current_repos
    /\ patches = <<>>
    /\ pc = "start"
    /\ call = NoCall
    /\ outcome = NoOutcome

\* Repository.generate_live_patch_of_list(expected_repos, current_repos,
\* context, handler), the handler appending each patch to patches.
GenerateLivePatchOfList ==
    /\ pc = "start"
    /\ LET result == RepositoryGenerateLivePatchOfList(expected_repos, current_repos,
                                                       context)
       IN  /\ patches' = result.patches
           /\ current_repos' = result.current
    /\ pc' = "done"
    /\ UNCHANGED <<expected_repos, fetched_repos, context, call, outcome>>

Next == GenerateLivePatchOfList

Spec == Init /\ [][Next]_vars

(***************************************************************************)
(* Properties                                                              *)
(***************************************************************************)
Done == pc = "done"

PatchesWhere(Test(_)) == SelectSeq(patches, Test)

IsRepositoryPatch(p) == p.model = "repository"

\* The position of the object called name in list.
IndexOf(list, name) == CHOOSE i \in DOMAIN list : list[i].name = name

Names(list) == {list[i].name : i \in DOMAIN list}

\* The expected repositories (positions) one of whose names is name.
Bearing(name) ==
    {e \in DOMAIN expected_repos : name \in Range(get_all_names(expected_repos[e]))}

\* The expected repository (position, or 0) that the i-th current repository
\* is reconciled with: the one bearing its name, unless an earlier current
\* repository bears one of that repository's names too.
Counterpart(i) ==
    LET free == {e \in Bearing(fetched_repos[i].name) :
                    \A k \in 1 .. i - 1 : e \notin Bearing(fetched_repos[k].name)}
    IN  IF free = {} THEN 0 ELSE CHOOSE e \in free : TRUE

\* The expected environment a CHANGE patch of an environment is about.
ExpectedEnvironmentsOf(p) ==
    {env \in UNION {Range(expected_repos[e].environments) : e \in Bearing(p.parent)} :
        env.name = p.expected}

\* C1: reconciling a current list equal to the expected list (the same
\* repositories with the same field values and nested models), with no
\* organization setting modified in the context, gives no patch at all.
C1_Idempotence ==
    (/\ Done
     /\ DOMAIN context.modified_org_settings = {}
     /\ Len(fetched_repos) = Len(expected_repos)
     /\ Range(fetched_repos) = Range(expected_repos))
    => patches = <<>>

C1_Witness ==
    /\ Done
    /\ DOMAIN context.modified_org_settings = {}
    /\ Len(expected_repos) = 2
    /\ fetched_repos = expected_repos
    /\ expected_repos[1].aliases # <<>>
    /\ patches = <<>>

C1_WitnessEnvironments ==
    /\ Done
    /\ fetched_repos = expected_repos
    /\ Len(expected_repos) = 1
    /\ Len(expected_repos[1].environments) = 2
    /\ patches = <<>>

\* C2: no CHANGE patch of a repository or an environment has, among the keys
\* of its changes, a field that is UNSET on the expected object.
C2_UnsetExclusion ==
    Done =>
        \A i \in DOMAIN patches :
            LET p == patches[i]
            IN  /\ (p.patch_type = "CHANGE" /\ p.model = "repository") =>
                       \A f \in DOMAIN p.changes :
                           ~is_unset(expected_repos[IndexOf(expected_repos, p.expected)][f])
                /\ (p.patch_type = "CHANGE" /\ p.model = "environment") =>
                       \A f \in DOMAIN p.changes :
                           \A env \in ExpectedEnvironmentsOf(p) : ~is_unset(env[f])

\* Key conservation of one list pass: a key that is in the expected and in
\* the current list gets one CHANGE patch or none, no ADD and no REMOVE; no
\* key gets an ADD and a REMOVE.
KeyConservation(list_patches, expected_names, current_names) ==
    LET Adds(k) == {i \in DOMAIN list_patches :
                      list_patches[i].patch_type = "ADD" /\ list_patches[i].expected = k}
        Removes(k) == {i \in DOMAIN list_patches :
                      list_patches[i].patch_type = "REMOVE" /\ list_patches[i].current = k}
        Changes(k) == {i \in DOMAIN list_patches :
                      /\ list_patches[i].patch_type = "CHANGE"
                      /\ k \in {list_patches[i].expected, list_patches[i].current}}
    IN  /\ \A k \in expected_names \cap current_names :
              Adds(k) = {} /\ Removes(k) = {} /\ Cardinality(Changes(k)) <= 1
        /\ \A k \in expected_names \cup current_names :
              Adds(k) = {} \/ Removes(k) = {}

EnvironmentPatchesOf(parent) ==
    LET Test(p) == p.model = "environment" /\ p.parent = parent
    IN  PatchesWhere(Test)

\* Key conservation of every pass of Environment.generate_live_patch_of_list.
C3_EnvironmentKeyConservation ==
    Done =>
        \A i \in DOMAIN fetched_repos :
            Counterpart(i) # 0 =>
                KeyConservation(EnvironmentPatchesOf(fetched_repos[i].name),
                                Names(expected_repos[Counterpart(i)].environments),
                                Names(fetched_repos[i].environments))

\* C3: in the pass over the list of repositories and in each pass over a
\* list of environments, a key that is in the expected and in the current
\* list gets one CHANGE patch or none, no ADD and no REMOVE, and no key gets
\* an ADD and a REMOVE.
C3_KeyConservation ==
    /\ Done => KeyConservation(PatchesWhere(IsRepositoryPatch),
                               Names(expected_repos), Names(fetched_repos))
    /\ C3_EnvironmentKeyConservation

IsAddition(p) == p.patch_type = "ADD"

\* The patches an added repository's nested models get: one ADD for each.
Additions(model, list, parent) ==
    [i \in DOMAIN list |->
        LivePatch("ADD", model, list[i].name, None, parent, NoChanges)]

NestedAdditions(repo) ==
    Additions("repo_webhook", repo.webhooks, repo.name)
    \o Additions("repo_secret", repo.secrets, repo.name)
    \o Additions("environment", repo.environments, repo.name)
    \o (IF repo.archived = "False"
        THEN Additions("branch_protection_rule", repo.branch_protection_rules,
                       repo.name)
        ELSE <<>>)

\* C4 as stated: an expected repository without current counterpart gets its
\* ADD patch, and none of its nested models gets a patch.
C4_AdditionsSkipNested ==
    Done =>
        \A i \in DOMAIN patches :
            (IsRepositoryPatch(patches[i]) /\ IsAddition(patches[i])) =>
                \A j \in DOMAIN patches :
                    IsRepositoryPatch(patches[j]) \/ patches[j].parent # patches[i].expected

\* C4 as amended: the ADD patch of an expected repository without current
\* counterpart is followed by one ADD patch for each of its webhooks, secrets
\* and environments and, if its archived is False, branch protection rules,
\* in this order, and by no other patch of its nested models (none for its
\* workflow settings, no CHANGE, no REMOVE).
C4_AdditionsAddNested ==
    Done =>
        \A i \in DOMAIN patches :
            (IsRepositoryPatch(patches[i]) /\ IsAddition(patches[i])) =>
                LET repo == expected_repos[IndexOf(expected_repos, patches[i].expected)]
                    nested == NestedAdditions(repo)
                    last == i + Len(nested)
                IN  /\ last <= Len(patches)
                    /\ SubSeq(patches, i + 1, last) = nested
                    /\ last < Len(patches) => IsRepositoryPatch(patches[last + 1])

C4_Witness ==
    /\ Done
    /\ fetched_repos = <<>>
    /\ Len(expected_repos) = 1
    /\ expected_repos[1].workflows = "wf-b"
    /\ expected_repos[1].archived = UNSET
    /\ expected_repos[1].branch_protection_rules # <<>>
    /\ Len(patches) = 4
    /\ patches[1].model = "repository"
    /\ patches[4].model = "environment"

\* The patches of one list are in order: the CHANGE and REMOVE patches in
\* the order of the current list, then the ADD patches in the order of the
\* expected list.
InListOrder(list_patches, expected_list, current_list) ==
    \A i, j \in DOMAIN list_patches :
        i < j =>
            /\ IsAddition(list_patches[i]) =>
                  /\ IsAddition(list_patches[j])
                  /\ IndexOf(expected_list, list_patches[i].expected)
                        < IndexOf(expected_list, list_patches[j].expected)
            /\ ~IsAddition(list_patches[j]) =>
                  IndexOf(current_list, list_patches[i].current)
                     < IndexOf(current_list, list_patches[j].current)

\* C5: in the pass over the repositories and in each pass over the
\* environments of a repository, the handler gets the CHANGE and REMOVE
\* patches in the order of the current list and, after all of them, the ADD
\* patches in the order of the expected list.
C5_PatchOrdering ==
    Done =>
        /\ InListOrder(PatchesWhere(IsRepositoryPatch), expected_repos, fetched_repos)
        /\ \A i \in DOMAIN fetched_repos :
              Counterpart(i) # 0 =>
                  InListOrder(EnvironmentPatchesOf(fetched_repos[i].name),
                              expected_repos[Counterpart(i)].environments,
                              fetched_repos[i].environments)
        /\ \A e \in DOMAIN expected_repos :
              (\A i \in DOMAIN fetched_repos : Counterpart(i) # e) =>
                  InListOrder(EnvironmentPatchesOf(expected_repos[e].name),
                              expected_repos[e].environments, <<>>)

C5_Witness ==
    /\ Done
    /\ Len(fetched_repos) = 2
    /\ Len(expected_repos) = 2
    /\ LET list_patches == PatchesWhere(IsRepositoryPatch)
       IN  /\ Len(list_patches) = 3
           /\ list_patches[1].patch_type = "REMOVE"
           /\ list_patches[2].patch_type = "CHANGE"
           /\ list_patches[3].patch_type = "ADD"
           /\ list_patches[2].expected = expected_repos[2].name

\* The repository a repository patch is the own patch of, for the patches of
\* its nested models.
Owner(p) == IF IsAddition(p) THEN p.expected ELSE p.current

\* C6: the ADD or CHANGE patch of a repository comes before every patch of
\* that repository's workflow settings, webhooks, secrets, environments and
\* branch protection rules.
C6_ParentBeforeChild ==
    Done =>
        \A i, j \in DOMAIN patches :
            (/\ IsRepositoryPatch(patches[i])
             /\ patches[i].patch_type \in {"ADD", "CHANGE"}
             /\ ~IsRepositoryPatch(patches[j])
             /\ patches[j].parent = Owner(patches[i])) => i < j

C6_Witness ==
    /\ Done
    /\ Len(patches) >= 5
    /\ patches[1].model = "repository"
    /\ patches[1].patch_type = "CHANGE"
    /\ {patches[i].model : i \in 2 .. Len(patches)} =
           {"repo_workflow_settings", "repo_webhook", "repo_secret", "environment"}

ExpectedRepositoryOf(p) == expected_repos[IndexOf(expected_repos, p.expected)]

IsRepositoryChange(p) == IsRepositoryPatch(p) /\ p.patch_type = "CHANGE"

\* C7: the changes of the CHANGE patch of a repository whose expected
\* archived is True have no field of unavailable_fields_in_archived_repos.
C7_ArchivedExclusion ==
    Done =>
        \A i \in DOMAIN patches :
            (IsRepositoryChange(patches[i])
                /\ ExpectedRepositoryOf(patches[i]).archived = "True") =>
                DOMAIN patches[i].changes \cap unavailable_fields_in_archived_repos = {}

C7_Witness ==
    /\ Done
    /\ Len(patches) = 1
    /\ IsRepositoryChange(patches[1])
    /\ expected_repos[1].archived = "True"
    /\ expected_repos[1].has_wiki = "True"
    /\ fetched_repos[1].has_wiki = "False"
    /\ DOMAIN patches[1].changes = {"archived"}

\* C8: the changes of the CHANGE patch of a repository whose expected
\* private is True have none of the security_properties.
C8_PrivateExclusion ==
    Done =>
        \A i \in DOMAIN patches :
            (IsRepositoryChange(patches[i])
                /\ ExpectedRepositoryOf(patches[i]).private = "True") =>
                DOMAIN patches[i].changes \cap security_properties = {}

C8_Witness ==
    /\ Done
    /\ Len(patches) = 1
    /\ IsRepositoryChange(patches[1])
    /\ expected_repos[1].private = "True"
    /\ expected_repos[1].secret_scanning = "enabled"
    /\ fetched_repos[1].secret_scanning = "disabled"
    /\ DOMAIN patches[1].changes = {"private"}

OrgSignoffChangedToTrue ==
    /\ "web_commit_signoff_required" \in DOMAIN context.modified_org_settings
    /\ context.modified_org_settings["web_commit_signoff_required"].to_value = "True"

\* The CHANGE patches of the current repository called name that list
\* web_commit_signoff_required.
SignoffEntries(name) ==
    {i \in DOMAIN patches :
        /\ IsRepositoryChange(patches[i])
        /\ patches[i].current = name
        /\ "web_commit_signoff_required" \in DOMAIN patches[i].changes}

\* C9: if the organization's web_commit_signoff_required is modified to
\* True, a current repository with a counterpart has its
\* web_commit_signoff_required set to True before the diff, so that the
\* field is in the changes only if the expected value is set and not True
\* (never for current False and expected UNSET or True); otherwise the
\* current repository stays as fetched and the field is in the changes
\* exactly if the expected value is set and differs from the fetched one.
C9_SignoffOverride ==
    Done =>
        \A i \in DOMAIN fetched_repos :
            LET fetched == fetched_repos[i]
                entries == SignoffEntries(fetched.name)
            IN  IF Counterpart(i) = 0 THEN current_repos[i] = fetched
                ELSE LET to_value ==
                             expected_repos[Counterpart(i)].web_commit_signoff_required
                     IN  IF OrgSignoffChangedToTrue
                         THEN /\ current_repos[i] =
                                    [fetched EXCEPT !.web_commit_signoff_required = "True"]
                              /\ entries # {} <=> to_value \notin {UNSET, "True"}
                         ELSE /\ current_repos[i] = fetched
                              /\ entries # {} <=>
                                    to_value \notin {UNSET, fetched.web_commit_signoff_required}
                              /\ \A k \in entries :
                                    patches[k].changes["web_commit_signoff_required"]
                                        = Change(fetched.web_commit_signoff_required, to_value)

C9_Witness ==
    /\ Done
    /\ OrgSignoffChangedToTrue
    /\ fetched_repos[1].web_commit_signoff_required = "False"
    /\ expected_repos[1].web_commit_signoff_required = UNSET
    /\ current_repos[1].web_commit_signoff_required = "True"
    /\ patches = <<>>

RepositoryAdditions(name) ==
    {i \in DOMAIN patches :
        IsRepositoryPatch(patches[i]) /\ IsAddition(patches[i])
        /\ patches[i].expected = name}

RepositoryRemovals(name) ==
    {i \in DOMAIN patches :
        IsRepositoryPatch(patches[i]) /\ patches[i].patch_type = "REMOVE"
        /\ patches[i].current = name}

\* C10: a current repository whose name is the name or an alias of
\* an expected repository gets no REMOVE patch, and that expected repository
\* no ADD patch.
C10_RenameWithoutRecreate ==
    Done =>
        \A i \in DOMAIN fetched_repos :
            \A e \in Bearing(fetched_repos[i].name) :
                /\ RepositoryRemovals(fetched_repos[i].name) = {}
                /\ RepositoryAdditions(expected_repos[e].name) = {}

\* What the pass does guarantee about names and aliases: the first current
\* repository (in list order) whose name is the name or an alias of an
\* expected repository is matched to it: it
\* gets no REMOVE patch, its only patch, if any, is a CHANGE for that
\* expected repository, and the expected repository gets no ADD patch; a
\* later current repository with another name of the same expected
\* repository is not matched and gets a REMOVE patch.
C10_FirstBearerIsMatched ==
    Done =>
        \A i \in DOMAIN fetched_repos :
            LET name == fetched_repos[i].name
                own == {k \in DOMAIN patches :
                           IsRepositoryPatch(patches[k]) /\ patches[k].current = name}
            IN  /\ \A e \in Bearing(name) :
                       RepositoryAdditions(expected_repos[e].name) = {}
                /\ Cardinality(own) <= 1
                /\ IF Counterpart(i) # 0
                   THEN \A k \in own :
                           /\ patches[k].patch_type = "CHANGE"
                           /\ patches[k].expected = expected_repos[Counterpart(i)].name
                   ELSE Cardinality(RepositoryRemovals(name)) = 1

C10_Witness ==
    /\ Done
    /\ Len(expected_repos) = 1
    /\ Len(fetched_repos) = 2
    /\ fetched_repos[1].name \in Range(expected_repos[1].aliases)
    /\ fetched_repos[2].name = expected_repos[1].name
    /\ Len(patches) = 2
    /\ IsRepositoryChange(patches[1])
    /\ "name" \in DOMAIN patches[1].changes
    /\ patches[2].patch_type = "REMOVE"

(***************************************************************************)
(* The github-pages environment                                            *)
(***************************************************************************)
\* The REMOVE patches of the environment env_name of the repository parent.
EnvironmentRemovals(parent, env_name) ==
    {k \in DOMAIN patches :
        /\ patches[k].model = "environment"
        /\ patches[k].parent = parent
        /\ patches[k].patch_type = "REMOVE"
        /\ patches[k].current = env_name}

\* The parent repository keeps its github-pages environment: it is the
\* organization site or its GitHub Pages are not disabled.
KeepsPagesEnvironment(parent) ==
    \/ Lower(parent.name) = Lower(context.org_id \o ".github.io")
    \/ parent.gh_pages_build_type # "disabled"

\* The positions of the current environments of the i-th current repository
\* that have no expected environment of the same name.
UnmatchedEnvironments(i) ==
    {k \in DOMAIN fetched_repos[i].environments :
        fetched_repos[i].environments[k].name
            \notin Names(expected_repos[Counterpart(i)].environments)}

\* C11: in every pass over the environments of a current repository (the
\* parent), an unmatched current environment named github-pages gets no
\* REMOVE patch if the parent is the organization site "<org>.github.io"
\* (whatever the case) or the parent's gh_pages_build_type is not "disabled";
\* every other unmatched current environment gets exactly one REMOVE patch.
C11_PagesEnvironmentKept ==
    Done =>
        \A i \in DOMAIN fetched_repos :
            Counterpart(i) # 0 =>
                \A k \in UnmatchedEnvironments(i) :
                    LET parent == fetched_repos[i]
                        env_name == parent.environments[k].name
                        removals == EnvironmentRemovals(parent.name, env_name)
                    IN  IF env_name = "github-pages" /\ KeepsPagesEnvironment(parent)
                        THEN removals = {}
                        ELSE Cardinality(removals) = 1

\* The current repository has GitHub Pages on, the expected one off; the
\* unmatched github-pages environment is kept and the other one removed.
C11_Witness ==
    /\ Done
    /\ Len(fetched_repos) = 1
    /\ Counterpart(1) = 1
    /\ expected_repos[1].gh_pages_build_type = "disabled"
    /\ fetched_repos[1].gh_pages_build_type = "legacy"
    /\ expected_repos[1].environments = <<>>
    /\ Names(fetched_repos[1].environments) = {"github-pages", "dev"}
    /\ EnvironmentRemovals("x", "github-pages") = {}
    /\ Cardinality(EnvironmentRemovals("x", "dev")) = 1

\* The organization site with GitHub Pages off keeps the environment too.
C11_WitnessSite ==
    /\ Done
    /\ Len(fetched_repos) = 1
    /\ fetched_repos[1].name = "ORG.github.io"
    /\ fetched_repos[1].gh_pages_build_type = "disabled"
    /\ expected_repos[1].environments = <<>>
    /\ Names(fetched_repos[1].environments) = {"github-pages"}
    /\ patches = <<>>

(***************************************************************************)
(* Branch protection rules of archived repositories                        *)
(***************************************************************************)
IsBranchProtectionRulePatch(p) == p.model = "branch_protection_rule"

\* C12: no ADD, CHANGE or REMOVE patch is emitted for a branch protection
\* rule of a repository whose expected archived is True, whatever its
\* expected and current rules are.
C12_ArchivedRulesExcluded ==
    Done =>
        \A i \in DOMAIN patches :
            IsBranchProtectionRulePatch(patches[i]) =>
                \A e \in Bearing(patches[i].parent) :
                    expected_repos[e].archived # "True"

\* An archived repository whose expected rule differs from the current one:
\* the repository is changed, the rule gets no patch.
C12_Witness ==
    /\ Done
    /\ Len(expected_repos) = 1
    /\ Len(fetched_repos) = 1
    /\ expected_repos[1].archived = "True"
    /\ expected_repos[1].branch_protection_rules # <<>>
    /\ fetched_repos[1].branch_protection_rules # <<>>
    /\ expected_repos[1].branch_protection_rules # fetched_repos[1].branch_protection_rules
    /\ patches # <<>>
    /\ IsRepositoryChange(patches[1])
    /\ \A i \in DOMAIN patches : ~IsBranchProtectionRulePatch(patches[i])

\* A new archived repository: its expected rules are not added.
C12_WitnessAddition ==
    /\ Done
    /\ fetched_repos = <<>>
    /\ Len(expected_repos) = 1
    /\ expected_repos[1].archived = "True"
    /\ expected_repos[1].branch_protection_rules # <<>>
    /\ patches # <<>>
    /\ \A i \in DOMAIN patches : ~IsBranchProtectionRulePatch(patches[i])

(***************************************************************************)
(* has_projects and the organization's has_organization_projects           *)
(***************************************************************************)
\* The expected organization settings have has_organization_projects False.
OrgProjectsDisabled ==
    /\ "has_organization_projects" \in DOMAIN context.expected_org_settings
    /\ context.expected_org_settings["has_organization_projects"] = "False"

\* The CHANGE patches (positions) of the current repository name.
RepositoryChanges(name) ==
    {k \in DOMAIN patches :
        IsRepositoryChange(patches[k]) /\ patches[k].current = name}

\* The i-th current repository differs from its expected counterpart in
\* has_projects: the expected value is set, is not the current one, and the
\* field is compared (the expected repository is not archived).
HasProjectsDiffers(i) ==
    LET expected == expected_repos[Counterpart(i)]
    IN  /\ ~is_unset(expected.has_projects)
        /\ expected.has_projects # fetched_repos[i].has_projects
        /\ expected.archived # "True"

\* C13: with has_organization_projects False no CHANGE patch of a repository
\* has has_projects among its changes, and a repository that differs from
\* the current one (as the diff sees it, after the organization wide
\* override of C9) in has_projects only gets no CHANGE patch; with the setting
\* True, unset or absent, a difference in has_projects is in the changes of
\* the repository's CHANGE patch, from the current to the expected value.
C13_HasProjectsSuppression ==
    Done =>
        \A i \in DOMAIN fetched_repos :
            Counterpart(i) # 0 =>
                LET expected == expected_repos[Counterpart(i)]
                    current == fetched_repos[i]
                    changes == RepositoryChanges(current.name)
                IN  IF OrgProjectsDisabled
                    THEN /\ \A k \in changes :
                                "has_projects" \notin DOMAIN patches[k].changes
                         /\ (\A f \in (RepositoryFields \cup {"name"}) \ {"has_projects"} :
                                expected[f] = current_repos[i][f])
                                => changes = {}
                    ELSE HasProjectsDiffers(i) =>
                            \E k \in changes :
                                /\ "has_projects" \in DOMAIN patches[k].changes
                                /\ patches[k].changes["has_projects"] =
                                       Change(current.has_projects, expected.has_projects)

\* has_projects is the only difference and organization projects are
\* disabled: no patch.
C13_Witness ==
    /\ Done
    /\ OrgProjectsDisabled
    /\ Len(fetched_repos) = 1
    /\ Counterpart(1) = 1
    /\ HasProjectsDiffers(1)
    /\ patches = <<>>

\* has_projects and another field differ: the CHANGE patch has the other
\* field only.
C13_WitnessOtherField ==
    /\ Done
    /\ OrgProjectsDisabled
    /\ Len(fetched_repos) = 1
    /\ Counterpart(1) = 1
    /\ HasProjectsDiffers(1)
    /\ Len(patches) = 1
    /\ DOMAIN patches[1].changes = {"has_wiki"}

\* has_organization_projects unset: the difference is reported.
C13_WitnessReported ==
    /\ Done
    /\ "has_organization_projects" \in DOMAIN context.expected_org_settings
    /\ is_unset(context.expected_org_settings["has_organization_projects"])
    /\ Len(fetched_repos) = 1
    /\ Counterpart(1) = 1
    /\ HasProjectsDiffers(1)
    /\ Len(patches) = 1
    /\ DOMAIN patches[1].changes = {"has_projects"}

(***************************************************************************)
(* gh_pages_source_branch and gh_pages_source_path                         *)
(***************************************************************************)
\* C14: the changes of a repository's CHANGE patch that have
\* gh_pages_source_branch have gh_pages_source_path too, with the expected
\* path as to_value; changes without gh_pages_source_branch have
\* gh_pages_source_path only if the expected path differs from the current
\* one, and then as the change from the current to the expected path.
C14_PagesPairing ==
    Done =>
        \A k \in DOMAIN patches :
            IsRepositoryChange(patches[k]) =>
                LET changes == patches[k].changes
                    expected == ExpectedRepositoryOf(patches[k])
                    current == fetched_repos[IndexOf(fetched_repos, patches[k].current)]
                IN  IF "gh_pages_source_branch" \in DOMAIN changes
                    THEN /\ "gh_pages_source_path" \in DOMAIN changes
                         /\ changes["gh_pages_source_path"].to_value =
                                expected.gh_pages_source_path
                    ELSE "gh_pages_source_path" \in DOMAIN changes =>
                            /\ expected.gh_pages_source_path # current.gh_pages_source_path
                            /\ changes["gh_pages_source_path"] =
                                   Change(current.gh_pages_source_path,
                                          expected.gh_pages_source_path)

\* The branch changes, the path is the same on both sides: both are in the
\* changes.
C14_Witness ==
    /\ Done
    /\ Len(patches) = 1
    /\ IsRepositoryChange(patches[1])
    /\ expected_repos[1].gh_pages_source_path = "/"
    /\ fetched_repos[1].gh_pages_source_path = "/"
    /\ DOMAIN patches[1].changes = {"gh_pages_source_branch", "gh_pages_source_path"}
    /\ patches[1].changes["gh_pages_source_path"] = Change("/", "/")

\* The path changes, the branch does not: the path alone is in the changes.
C14_WitnessPathOnly ==
    /\ Done
    /\ Len(patches) = 1
    /\ IsRepositoryChange(patches[1])
    /\ DOMAIN patches[1].changes = {"gh_pages_source_path"}
    /\ patches[1].changes["gh_pages_source_path"] = Change("/", "/docs")

(***************************************************************************)
(* The mappings to the provider                                            *)
(*                                                                         *)
(* A data dict is a function from field names to values. A mapping is a    *)
(* function from the paths of the provider payload (the keys of the nested *)
(* dicts joined by ".") to benders; bend evaluates the benders on the      *)
(* data.                                                                   *)
(***************************************************************************)
\* jsonbender: S(field) selects data[field].
S(field) == [bender |-> "S", field |-> field, value |-> None]

\* jsonbender: K(value) is the constant value.
K(value) == [bender |-> "K", field |-> None, value |-> value]

\* jsonbender: If(S(field) == K(True), K("enabled"), K("disabled"))
IfEnabled(field) == [bender |-> "If", field |-> field, value |-> None]

\* bend(mapping, data)
bend(mapping, data) ==
    [path \in DOMAIN mapping |->
        LET b == mapping[path]
        IN  IF b.bender = "S" THEN data[b.field]
            ELSE IF b.bender = "K" THEN b.value
            ELSE IF data[b.field] = "True" THEN "enabled" ELSE "disabled"]

\* What a call returns, or the exception it raises.
Returned(value) == [state |-> "returned", value |-> value]

Raised(exception) == [state |-> "raised", exception |-> exception]

\* The fields of Repository that are sent to the provider: not external_only,
\* model_only, nested_model or read_only (template_repository).
RepositoryProviderFields == RepositoryFields \ {"template_repository"}

\* Python's truth value of a field value; the one of the UNSET sentinel is
\* either.
Truthy(value, unset_is_true) ==
    IF is_unset(value) THEN unset_is_true
    ELSE value \notin {"False", None, "[]", "0"}

\* The path of the payload that a security or GitHub Pages property goes to.
ProviderPath(field) ==
    CASE field = "secret_scanning" -> "security_and_analysis.secret_scanning.status"
      [] field = "secret_scanning_push_protection" ->
             "security_and_analysis.secret_scanning_push_protection.status"
      [] field = "dependabot_security_updates_enabled" ->
             "security_and_analysis.dependabot_security_updates.status"
      [] field = "gh_pages_build_type" -> "gh_pages.build_type"
      [] field = "gh_pages_source_branch" -> "gh_pages.source.branch"
      [] field = "gh_pages_source_path" -> "gh_pages.source.path"
      [] OTHER -> field

\* The mapping that has S(field) under the top level key of each field of
\* fields, and each field of nested under its ProviderPath.
MappingOf(fields, nested) ==
    LET paths == fields \cup {ProviderPath(f) : f \in nested}
    IN  [path \in paths |->
            IF path \in fields THEN S(path)
            ELSE LET f == CHOOSE g \in nested : ProviderPath(g) = path
                 IN  IF f = "dependabot_security_updates_enabled"
                     THEN IfEnabled(f) ELSE S(f)]

\* The private repositories keep their security properties in the mapping (a
\* mutant of RepositoryGetMappingToProvider).
GetMappingToProviderKeepingSecurity(data, unset_is_true) ==
    LET mapping == {f \in RepositoryProviderFields \cap DOMAIN data : ~is_unset(data[f])}
    IN  Returned(MappingOf(mapping, {}))

\* The GitHub Pages source of every build type goes to gh_pages.source (a
\* mutant of RepositoryGetMappingToProvider).
GetMappingToProviderAnyBuildType(data, unset_is_true) ==
    LET mapping == {f \in RepositoryProviderFields \cap DOMAIN data : ~is_unset(data[f])}
        pages == gh_pages_properties \cup {"gh_pages_build_type"}
    IN  Returned(MappingOf(mapping \ pages, mapping \cap pages))

\* Repository.get_mapping_to_provider(org_id, data, provider)
RepositoryGetMappingToProvider(data, unset_is_true) ==
    LET mapping == {f \in RepositoryProviderFields \cap DOMAIN data : ~is_unset(data[f])}
        is_private == IF "private" \in DOMAIN data
                      THEN Truthy(data["private"], unset_is_true)
                      ELSE FALSE
        security_mapping == IF is_private THEN {}
                            ELSE security_properties \cap DOMAIN data
        has_build_type == "gh_pages_build_type" \in DOMAIN data
        gh_pages_build_type == IF has_build_type THEN data["gh_pages_build_type"] ELSE None
        gh_pages_legacy_mapping ==
            IF gh_pages_build_type = None \/ gh_pages_build_type = "legacy"
            THEN gh_pages_properties \cap DOMAIN data
            ELSE {}
        gh_pages_mapping ==
            (IF has_build_type THEN {"gh_pages_build_type"} ELSE {})
            \cup gh_pages_legacy_mapping
        \* mapping.pop(key) of a key that is not in the mapping
        key_error == gh_pages_mapping \ mapping # {}
    IN  IF key_error THEN Raised("KeyError")
        ELSE Returned(MappingOf((mapping \ security_properties) \ gh_pages_mapping,
                                security_mapping \cup gh_pages_mapping))

\* The fields of Environment that are sent to the provider (id and node_id
\* are external_only).
EnvironmentProviderFields == EnvironmentFields

\* provider.get_actor_ids_with_type(reviewers), as {"type", "id"} entries.
ReviewerMapping(reviewers) == "actors" \o reviewers

\* A key that is missing in the data of the provider.
Missing == "<missing>"

\* The JSON null of a deployment_branch_policy, also what OptionalS gives
\* for a missing key.
Null == [json |-> "null", protected_branches |-> Missing,
         custom_branch_policies |-> Missing]

\* The JSON object of a deployment_branch_policy with its two flags.
PolicyObject(protected_branches, custom_branch_policies) ==
    [json |-> "object", protected_branches |-> protected_branches,
     custom_branch_policies |-> custom_branch_policies]

\* A deployment_branch_policy of any value goes to the provider as custom
\* branch policies (a mutant of EnvironmentGetMappingToProvider).
GetMappingToProviderCoercingPolicy(data) ==
    LET mapping == {f \in EnvironmentProviderFields \cap DOMAIN data : ~is_unset(data[f])}
    IN  Returned([f \in mapping |->
                    IF f = "reviewers" THEN K(ReviewerMapping(data[f]))
                    ELSE IF f = "deployment_branch_policy"
                    THEN K(PolicyObject("False", "True"))
                    ELSE S(f)])

\* Environment.get_mapping_to_provider(org_id, data, provider)
EnvironmentGetMappingToProvider(data) ==
    LET mapping == {f \in EnvironmentProviderFields \cap DOMAIN data : ~is_unset(data[f])}
        deployment_branch_policy == data["deployment_branch_policy"]
        deployment_branch_policy_mapping ==
            CASE deployment_branch_policy = "all" -> Null
              [] deployment_branch_policy = "protected" -> PolicyObject("True", "False")
              [] deployment_branch_policy = "selected" -> PolicyObject("False", "True")
              [] OTHER -> Null
    IN  IF /\ "deployment_branch_policy" \in mapping
           /\ deployment_branch_policy \notin {"all", "protected", "selected"}
        THEN Raised("RuntimeError")
        ELSE Returned([f \in mapping |->
                         IF f = "reviewers" THEN K(ReviewerMapping(data[f]))
                         ELSE IF f = "deployment_branch_policy"
                         THEN K(deployment_branch_policy_mapping)
                         ELSE S(f)])

(***************************************************************************)
(* The mapping of an environment from the provider                         *)
(*                                                                         *)
(* The provider data of an environment: name, protection_rules (a sequence *)
(* of rules, each [type, wait_timer, reviewers]), deployment_branch_policy *)
(* ([json |-> "null"] or [json |-> "object", protected_branches,           *)
(* custom_branch_policies]) and branch_policies (a sequence of names). A   *)
(* key that is missing has the value Missing; a missing list is <<>>, the  *)
(* default that OptionalS gives it.                                        *)
(***************************************************************************)
\* transform_reviewers(x)
transform_reviewers(x, org_id) ==
    CASE x.type = "User" -> Returned("@" \o x.reviewer)
      [] x.type = "Team" -> Returned("@" \o org_id \o "/" \o x.reviewer)
      [] OTHER -> Raised("RuntimeError")

\* Every policy object is taken for "protected" (a mutant of
\* transform_policy).
transform_policy_without_selected(x) ==
    IF x.json = "null" THEN Returned("all") ELSE Returned("protected")

\* transform_policy(x)
transform_policy(x) ==
    IF x.json = "null" THEN Returned("all")
    ELSE IF x.protected_branches = "True" THEN Returned("protected")
    ELSE IF x.custom_branch_policies = "True" THEN Returned("selected")
    ELSE Raised("ValueError")

\* A policy without a flag set is taken for "all" (a mutant of
\* transform_policy).
transform_policy_coercing(x) ==
    IF x.json = "null" THEN Returned("all")
    ELSE IF x.protected_branches = "True" THEN Returned("protected")
    ELSE IF x.custom_branch_policies = "True" THEN Returned("selected")
    ELSE Returned("all")

\* The rules of protection_rules of the given type.
RulesOfType(protection_rules, type) ==
    LET Test(rule) == rule.type = type
    IN  SelectSeq(protection_rules, Test)

\* Forall(transform_reviewers) on the reviewers of the first
\* required_reviewers rule: the local reviewers, or the first exception.
RECURSIVE TransformReviewers(_, _, _)
TransformReviewers(reviewers, org_id, done) ==
    IF reviewers = <<>> THEN Returned(done)
    ELSE LET r == transform_reviewers(Head(reviewers), org_id)
         IN  IF r.state = "raised" THEN r
             ELSE TransformReviewers(Tail(reviewers), org_id, Append(done, r.value))

\* Environment.from_provider_data(org_id, data): bend of
\* Environment.get_mapping_from_provider(org_id, data) on data, and the
\* Environment made of it.
EnvironmentFromProviderData(org_id, data) ==
    LET protection_rules == data.protection_rules
        wait_timers == RulesOfType(protection_rules, "wait_timer")
        wait_timer ==
            IF wait_timers = <<>> THEN "0"
            ELSE IF Head(wait_timers).wait_timer \in {Missing, None} THEN "0"
            ELSE Head(wait_timers).wait_timer
        required == RulesOfType(protection_rules, "required_reviewers")
        reviewers ==
            TransformReviewers(
                IF required = <<>> THEN <<>> ELSE Head(required).reviewers,
                org_id, <<>>)
        policy == transform_policy(data.deployment_branch_policy)
    IN  IF reviewers.state = "raised" THEN reviewers
        ELSE IF policy.state = "raised" THEN policy
        ELSE Returned([name |-> IF data.name = Missing THEN UNSET ELSE data.name,
                       wait_timer |-> wait_timer,
                       reviewers |-> reviewers.value,
                       deployment_branch_policy |-> policy.value,
                       branch_policies |-> data.branch_policies])

(***************************************************************************)
(* ReferenceClient                                                         *)
(***************************************************************************)
\* A request to the provider, or a call of one of its operations: the
\* operation, the names that address it, the payload (<<>> without, or
\* <<payload>>) and, for add_repo, the template repository.
ProviderCall(operation, parent, name, payload, template) ==
    [operation |-> operation, parent |-> parent, name |-> name,
     payload |-> payload, template |-> template]

\* Every response but 204 reads as "already gone" (a mutant of
\* delete_reference).
delete_reference_never_raising(org_id, repo, ref, status) ==
    [result |-> IF status = 204 THEN Returned("True") ELSE Returned("False"),
     calls |-> <<ProviderCall("DELETE", org_id \o "/" \o repo, "refs/heads/" \o ref, <<>>, None)>>]

\* ReferenceClient.delete_reference(org_id, repo, ref), status being the
\* status of the provider's response to the DELETE request.
delete_reference(org_id, repo, ref, status) ==
    [result |-> IF status = 204 THEN Returned("True")
                ELSE IF status \in {409, 422} THEN Returned("False")
                ELSE Raised("RuntimeError"),
     calls |-> <<ProviderCall("DELETE", org_id \o "/" \o repo, "refs/heads/" \o ref, <<>>, None)>>]

(***************************************************************************)
(* apply_live_patch                                                        *)
(*                                                                         *)
(* A patch is applied together with the objects it refers to:              *)
(* expected_object and current_object are <<>> (None) or <<object>>.       *)
(***************************************************************************)
\* ModelObject.to_model_dict(): the model fields with their values; whether
\* the unset ones are left out is keeps_unset.
to_model_dict(self, fields, keeps_unset) ==
    [f \in {g \in fields : keeps_unset \/ ~is_unset(self[g])} |-> self[f]]

\* The data of ModelObject.changes_to_provider: the to_value of each change.
ChangesData(changes) == [f \in DOMAIN changes |-> changes[f].to_value]

\* ModelObject.dict_to_provider_data: bend of the mapping on the data, or
\* the exception of the mapping.
dict_to_provider_data(mapping, data) ==
    IF mapping.state = "raised" THEN mapping
    ELSE Returned(bend(mapping.value, data))

\* The provider operation is called with the payload, unless building the
\* payload raised.
CallWithPayload(operation, parent, name, payload, template) ==
    IF payload.state = "raised"
    THEN [result |-> payload, calls |-> <<>>]
    ELSE [result |-> Returned(None),
          calls |-> <<ProviderCall(operation, parent, name, <<payload.value>>,
                                   template)>>]

\* A CHANGE sends the whole expected object (a mutant of
\* RepositoryApplyLivePatch).
ApplyLivePatchSendingAll(patch, expected_object, current_object, org_id, keeps_unset, unset_is_true) ==
    IF patch.patch_type = "REMOVE"
    THEN [result |-> Returned(None),
          calls |-> <<ProviderCall("delete_repo", org_id, current_object[1].name,
                                   <<>>, None)>>]
    ELSE LET data == to_model_dict(expected_object[1], RepositoryFields, FALSE)
         IN  CallWithPayload(
                 IF patch.patch_type = "ADD" THEN "add_repo" ELSE "update_repo",
                 org_id, patch.current,
                 dict_to_provider_data(
                     RepositoryGetMappingToProvider(data, unset_is_true), data),
                 expected_object[1].template_repository)

\* Repository.apply_live_patch(patch, org_id, provider)
RepositoryApplyLivePatch(patch, expected_object, current_object, org_id, keeps_unset, unset_is_true) ==
    CASE patch.patch_type = "ADD" ->
             LET data == to_model_dict(expected_object[1], RepositoryFields, keeps_unset)
             IN  CallWithPayload("add_repo", org_id, None,
                     dict_to_provider_data(
                         RepositoryGetMappingToProvider(data, unset_is_true), data),
                     expected_object[1].template_repository)
      [] patch.patch_type = "REMOVE" ->
             [result |-> Returned(None),
              calls |-> <<ProviderCall("delete_repo", org_id, current_object[1].name,
                                       <<>>, None)>>]
      [] patch.patch_type = "CHANGE" ->
             LET data == ChangesData(patch.changes)
             IN  CallWithPayload("update_repo", org_id, current_object[1].name,
                     dict_to_provider_data(
                         RepositoryGetMappingToProvider(data, unset_is_true), data),
                     None)

\* Environment.apply_live_patch(patch, org_id, provider)
EnvironmentApplyLivePatch(patch, expected_object, current_object, parent_object, org_id, keeps_unset) ==
    CASE patch.patch_type = "ADD" ->
             LET data == to_model_dict(expected_object[1], EnvironmentFields, keeps_unset)
             IN  CallWithPayload("add_repo_environment", parent_object.name,
                     expected_object[1].name,
                     dict_to_provider_data(EnvironmentGetMappingToProvider(data), data),
                     None)
      [] patch.patch_type = "REMOVE" ->
             [result |-> Returned(None),
              calls |-> <<ProviderCall("delete_repo_environment", parent_object.name,
                                       current_object[1].name, <<>>, None)>>]
      [] patch.patch_type = "CHANGE" ->
             LET data == ChangesData(patch.changes)
             IN  CallWithPayload("update_repo_environment", parent_object.name,
                     current_object[1].name,
                     dict_to_provider_data(EnvironmentGetMappingToProvider(data), data),
                     None)

(***************************************************************************)
(* The provider-facing operations, each called once on any input           *)
(***************************************************************************)
MaxKeys == 3

MaxReviewers == 2

\* The keys of the data given to Repository.get_mapping_to_provider.
DataKeys ==
    <<"name", "description", "template_repository", "private",
      "secret_scanning", "secret_scanning_push_protection",
      "dependabot_security_updates_enabled", "gh_pages_build_type",
      "gh_pages_source_branch", "gh_pages_source_path">>

\* A slot of the data: <<0, None>> is empty, <<j, value>> has DataKeys[j].
DataSlots ==
    {<<0, None>>}
    \cup UNION {{<<j, v>> : v \in Range(FieldValues(DataKeys[j])) \cup {UNSET}} :
                   j \in DOMAIN DataKeys}

\* The slots hold their keys in the order of DataKeys, the empty ones last.
IsData(slots) ==
    \A i \in 1 .. MaxKeys - 1 :
        slots[i + 1][1] = 0 \/ (slots[i][1] # 0 /\ slots[i][1] < slots[i + 1][1])

\* The data dict of the slots.
DataOf(slots) ==
    LET used == {i \in DOMAIN slots : slots[i][1] # 0}
    IN  [key \in {DataKeys[slots[i][1]] : i \in used} |->
            LET i == CHOOSE k \in used : DataKeys[slots[k][1]] = key
            IN  slots[i][2]]

\* Any data of at most MaxKeys keys.
InitRepositoryData ==
    \E slots \in {s \in [1 .. MaxKeys -> DataSlots] : IsData(s)},
       unset_is_true \in BOOLEAN :
        /\ unset_is_true =>
               \E i \in DOMAIN slots :
                   /\ slots[i][1] # 0
                   /\ DataKeys[slots[i][1]] = "private"
                   /\ is_unset(slots[i][2])
        /\ call = [op |-> "Repository.get_mapping_to_provider",
                   data |-> DataOf(slots), unset_is_true |-> unset_is_true]

\* The values of a field of the data given to
\* Environment.get_mapping_to_provider; Missing for a key that is not there.
EnvironmentDataValues(f) ==
    CASE f = "name" -> {"dev"}
      [] f = "wait_timer" -> {"30", UNSET, Missing}
      [] f = "reviewers" -> {"[]", "[@a]", UNSET, Missing}
      [] f = "deployment_branch_policy" ->
             {"all", "protected", "selected", "other", None, UNSET, Missing}
      [] f = "branch_policies" -> {"[main]", UNSET, Missing}

InitEnvironmentData ==
    \E wait_timer \in EnvironmentDataValues("wait_timer"),
       reviewers \in EnvironmentDataValues("reviewers"),
       deployment_branch_policy \in EnvironmentDataValues("deployment_branch_policy"),
       branch_policies \in EnvironmentDataValues("branch_policies") :
        LET all == [name |-> "dev", wait_timer |-> wait_timer, reviewers |-> reviewers,
                    deployment_branch_policy |-> deployment_branch_policy,
                    branch_policies |-> branch_policies]
        IN  call = [op |-> "Environment.get_mapping_to_provider",
                    data |-> [f \in {g \in EnvironmentFields : all[g] # Missing} |-> all[f]]]

\* The reviewers of a required_reviewers rule of the provider.
ProviderReviewers ==
    SeqsUpTo({[type |-> t, reviewer |-> "a"] : t \in {"User", "Team", "App"}},
             MaxReviewers)

\* The protection_rules of the provider: at most one wait_timer rule and
\* one required_reviewers rule, in either order.
ProtectionRules ==
    LET wait_timers ==
            {<<>>} \cup {<<[type |-> "wait_timer", wait_timer |-> w, reviewers |-> <<>>]>> :
                            w \in {"30", None, Missing}}
        required ==
            {<<>>} \cup {<<[type |-> "required_reviewers", wait_timer |-> Missing,
                            reviewers |-> r]>> : r \in ProviderReviewers}
        branch_policy ==
            <<[type |-> "branch_policy", wait_timer |-> Missing, reviewers |-> <<>>]>>
    IN  {w \o r : w \in wait_timers, r \in required}
        \cup {branch_policy \o r \o w : w \in wait_timers, r \in required}

\* The deployment_branch_policy of the provider.
ProviderPolicies ==
    {Null} \cup {[json |-> "object", protected_branches |-> p, custom_branch_policies |-> c] :
                    p, c \in {"True", "False", Missing}}

InitProviderData ==
    \E name \in {"dev", Missing},
       protection_rules \in ProtectionRules,
       deployment_branch_policy \in ProviderPolicies,
       branch_policies \in {<<>>, <<"main">>} :
        call = [op |-> "Environment.from_provider_data", org_id |-> "org",
                data |-> [name |-> name, protection_rules |-> protection_rules,
                          deployment_branch_policy |-> deployment_branch_policy,
                          branch_policies |-> branch_policies]]

\* The status of the provider's response to a DELETE of a reference.
Statuses == {200, 204, 301, 400, 401, 403, 404, 409, 422, 500, 503}

InitDeleteReference ==
    \E status \in Statuses, ref \in {"main", "gh-pages"} :
        call = [op |-> "ReferenceClient.delete_reference", org_id |-> "org",
                repo |-> "x", ref |-> ref, status |-> status]

\* The expected repositories of the patches that are applied.
ApplyExpectedRepositories ==
    {[DefaultRepository(name) EXCEPT
         !.private = private, !.secret_scanning = secret_scanning,
         !.gh_pages_build_type = build_type, !.gh_pages_source_branch = branch,
         !.gh_pages_source_path = path] :
        name \in {"x", "y"}, private \in {"False", "True", UNSET},
        secret_scanning \in {"disabled", "enabled", UNSET},
        build_type \in {"legacy", "disabled"}, branch \in {"main", "gh-pages"},
        path \in {"/", UNSET}}

\* The current repositories of the patches that are applied.
ApplyCurrentRepositories ==
    {[DefaultRepository("x") EXCEPT
         !.private = private, !.secret_scanning = secret_scanning] :
        private \in {"False", "True"}, secret_scanning \in {"disabled", "enabled"}}

\* The optional objects of a set.
Optional(objects) == {<<>>} \cup {<<o>> : o \in objects}

\* A patch that Repository.generate_live_patch emits for a repository, with
\* the objects it refers to.
InitRepositoryPatch ==
    \E expected_object \in Optional(ApplyExpectedRepositories),
       current_object \in Optional(ApplyCurrentRepositories),
       keeps_unset, unset_is_true \in BOOLEAN :
        LET own == RepositoryOwnPatch(expected_object, current_object, DefaultContext)
        IN  /\ expected_object # <<>> \/ current_object # <<>>
            /\ own # <<>>
            /\ keeps_unset => current_object = <<>>
            /\ unset_is_true => keeps_unset /\ is_unset(expected_object[1].private)
            /\ call = [op |-> "Repository.apply_live_patch", patch |-> own[1],
                       expected_object |-> expected_object,
                       current_object |-> current_object, org_id |-> "org",
                       keeps_unset |-> keeps_unset, unset_is_true |-> unset_is_true]

\* The expected environments of the patches that are applied.
ApplyExpectedEnvironments ==
    ExpectedEnvironments
    \cup {[e EXCEPT !.deployment_branch_policy = policy] :
             e \in ExpectedEnvironments, policy \in {"protected", "other", None}}

\* A patch that Environment.generate_live_patch emits for an environment,
\* with the objects it refers to.
InitEnvironmentPatch ==
    \E expected_object \in Optional(ApplyExpectedEnvironments),
       current_object \in Optional(CurrentEnvironments),
       keeps_unset \in BOOLEAN :
        LET parent_object == DefaultRepository("x")
            own == EnvironmentGenerateLivePatch(expected_object, current_object,
                                                parent_object)
        IN  /\ expected_object # <<>> \/ current_object # <<>>
            /\ (expected_object # <<>> /\ current_object # <<>>) =>
                   expected_object[1].name = current_object[1].name
            /\ own # <<>>
            /\ keeps_unset => current_object = <<>>
            /\ call = [op |-> "Environment.apply_live_patch", patch |-> own[1],
                       expected_object |-> expected_object,
                       current_object |-> current_object,
                       parent_object |-> parent_object, org_id |-> "org",
                       keeps_unset |-> keeps_unset]

(***************************************************************************)
(* The deployment_branch_policy through both mappings                      *)
(***************************************************************************)
\* The local policy of transform_policy(x) is mapped to the provider by
\* Environment.get_mapping_to_provider and bend: the policy of the payload.
PolicyFromProviderAndBack(x) ==
    LET local == transform_policy(x)
        data == [deployment_branch_policy |-> local.value]
        payload == dict_to_provider_data(EnvironmentGetMappingToProvider(data), data)
    IN  IF local.state = "raised" THEN local
        ELSE IF payload.state = "raised" THEN payload
        ELSE Returned(payload.value["deployment_branch_policy"])

\* The local policy is mapped to the provider by
\* Environment.get_mapping_to_provider and bend, and the policy of the
\* payload (None for a payload without one, as OptionalS reads it) is mapped
\* back by transform_policy.
PolicyToProviderAndBack(deployment_branch_policy) ==
    LET data == [deployment_branch_policy |-> deployment_branch_policy]
        payload == dict_to_provider_data(EnvironmentGetMappingToProvider(data), data)
    IN  IF payload.state = "raised" THEN payload
        ELSE IF "deployment_branch_policy" \in DOMAIN payload.value
        THEN transform_policy(payload.value["deployment_branch_policy"])
        ELSE transform_policy(Null)

InitPolicyFromProvider ==
    \E x \in ProviderPolicies :
        call = [op |-> "transform_policy, get_mapping_to_provider", policy |-> x]

InitPolicyToProvider ==
    \E deployment_branch_policy \in {"all", "protected", "selected", "other", UNSET} :
        call = [op |-> "get_mapping_to_provider, transform_policy",
                policy |-> deployment_branch_policy]

InitProvider ==
    /\ expected_repos = <<>>
    /\ current_repos = <<>>
    /\ fetched_repos = <<>>
    /\ context = DefaultContext
    /\ patches = <<>>
    /\ pc = "start"
    /\ outcome = NoOutcome
    /\ \/ InitRepositoryData
       \/ InitEnvironmentData
       \/ InitProviderData
       \/ InitDeleteReference
       \/ InitRepositoryPatch
       \/ InitEnvironmentPatch
       \/ InitPolicyFromProvider
       \/ InitPolicyToProvider

\* Each action runs the operation of call: its result and what it asked of
\* the provider are the outcome.
CallRepositoryGetMappingToProvider ==
    /\ pc = "start"
    /\ call.op = "Repository.get_mapping_to_provider"
    /\ outcome' = [result |-> RepositoryGetMappingToProvider(call.data, call.unset_is_true),
                   calls |-> <<>>]
    /\ pc' = "done"
    /\ UNCHANGED <<expected_repos, current_repos, fetched_repos, context, patches, call>>

CallEnvironmentGetMappingToProvider ==
    /\ pc = "start"
    /\ call.op = "Environment.get_mapping_to_provider"
    /\ outcome' = [result |-> EnvironmentGetMappingToProvider(call.data), calls |-> <<>>]
    /\ pc' = "done"
    /\ UNCHANGED <<expected_repos, current_repos, fetched_repos, context, patches, call>>

CallEnvironmentFromProviderData ==
    /\ pc = "start"
    /\ call.op = "Environment.from_provider_data"
    /\ outcome' = [result |-> EnvironmentFromProviderData(call.org_id, call.data),
                   calls |-> <<>>]
    /\ pc' = "done"
    /\ UNCHANGED <<expected_repos, current_repos, fetched_repos, context, patches, call>>

CallDeleteReference ==
    /\ pc = "start"
    /\ call.op = "ReferenceClient.delete_reference"
    /\ outcome' = delete_reference(call.org_id, call.repo, call.ref, call.status)
    /\ pc' = "done"
    /\ UNCHANGED <<expected_repos, current_repos, fetched_repos, context, patches, call>>

CallRepositoryApplyLivePatch ==
    /\ pc = "start"
    /\ call.op = "Repository.apply_live_patch"
    /\ outcome' = RepositoryApplyLivePatch(call.patch, call.expected_object,
                       call.current_object, call.org_id, call.keeps_unset,
                       call.unset_is_true)
    /\ pc' = "done"
    /\ UNCHANGED <<expected_repos, current_repos, fetched_repos, context, patches, call>>

CallEnvironmentApplyLivePatch ==
    /\ pc = "start"
    /\ call.op = "Environment.apply_live_patch"
    /\ outcome' = EnvironmentApplyLivePatch(call.patch, call.expected_object,
                       call.current_object, call.parent_object, call.org_id,
                       call.keeps_unset)
    /\ pc' = "done"
    /\ UNCHANGED <<expected_repos, current_repos, fetched_repos, context, patches, call>>

CallPolicyFromProviderAndBack ==
    /\ pc = "start"
    /\ call.op = "transform_policy, get_mapping_to_provider"
    /\ outcome' = [result |-> PolicyFromProviderAndBack(call.policy), calls |-> <<>>]
    /\ pc' = "done"
    /\ UNCHANGED <<expected_repos, current_repos, fetched_repos, context, patches, call>>

CallPolicyToProviderAndBack ==
    /\ pc = "start"
    /\ call.op = "get_mapping_to_provider, transform_policy"
    /\ outcome' = [result |-> PolicyToProviderAndBack(call.policy), calls |-> <<>>]
    /\ pc' = "done"
    /\ UNCHANGED <<expected_repos, current_repos, fetched_repos, context, patches, call>>

NextProvider ==
    \/ CallRepositoryGetMappingToProvider
    \/ CallEnvironmentGetMappingToProvider
    \/ CallEnvironmentFromProviderData
    \/ CallDeleteReference
    \/ CallRepositoryApplyLivePatch
    \/ CallEnvironmentApplyLivePatch
    \/ CallPolicyFromProviderAndBack
    \/ CallPolicyToProviderAndBack

SpecProvider == InitProvider /\ [][NextProvider]_vars

(***************************************************************************)
(* Properties of the provider-facing operations                            *)
(***************************************************************************)
Ran(op) == pc = "done" /\ call.op = op

HasReturned == outcome.result.state = "returned"

HasRaised == outcome.result.state = "raised"

\* The data without the keys whose value is unset.
SetData(data) == [f \in {g \in DOMAIN data : ~is_unset(data[g])} |-> data[f]]

\* No entry of the mapping selects a field of the data that is unset.
NoUnsetSource(mapping, data) ==
    \A path \in DOMAIN mapping :
        mapping[path].bender \in {"S", "If"} => ~is_unset(data[mapping[path].field])

\* The mapping of an environment's data has no entry sourced from an unset
\* field, and raises only if it raises for the data without the unset keys.
C15_EnvironmentNoUnsetInMapping ==
    Ran("Environment.get_mapping_to_provider") =>
        /\ HasReturned => NoUnsetSource(outcome.result.value, call.data)
        /\ HasRaised =>
               EnvironmentGetMappingToProvider(SetData(call.data)).state = "raised"

\* C15: the mapping that Repository.get_mapping_to_provider and
\* Environment.get_mapping_to_provider build for any data has no entry, at
\* the top level or under security_and_analysis or gh_pages, sourced from a
\* field whose value is unset, and building it does not fail because a key
\* is there with an unset value (it raises only if it raises for the data
\* without the unset keys too).
C15_NoUnsetInMapping ==
    /\ C15_EnvironmentNoUnsetInMapping
    /\ Ran("Repository.get_mapping_to_provider") =>
           /\ HasReturned => NoUnsetSource(outcome.result.value, call.data)
           /\ HasRaised =>
                  RepositoryGetMappingToProvider(SetData(call.data),
                                                 call.unset_is_true).state = "raised"

\* The paths and keys under which a mapping can have the GitHub Pages
\* source branch or path.
SourcePaths ==
    gh_pages_properties \cup {ProviderPath(f) : f \in gh_pages_properties}

\* C16: the mapping that Repository.get_mapping_to_provider builds for data
\* with gh_pages_build_type "disabled" has the source branch and the source
\* path neither under gh_pages.source nor as the top level keys
\* gh_pages_source_branch and gh_pages_source_path.
C16_DisabledPagesOmitSource ==
    (/\ Ran("Repository.get_mapping_to_provider")
     /\ HasReturned
     /\ "gh_pages_build_type" \in DOMAIN call.data
     /\ call.data["gh_pages_build_type"] = "disabled")
    => DOMAIN outcome.result.value \cap SourcePaths = {}

\* What holds for data with gh_pages_build_type "disabled" or "workflow":
\* nothing is under gh_pages.source.
C16_DisabledPagesHaveNoSourceObject ==
    (/\ Ran("Repository.get_mapping_to_provider")
     /\ HasReturned
     /\ "gh_pages_build_type" \in DOMAIN call.data
     /\ call.data["gh_pages_build_type"] \in {"disabled", "workflow"})
    => DOMAIN outcome.result.value \cap {ProviderPath(f) : f \in gh_pages_properties} = {}

\* The paths and keys under which a mapping or a payload can have a security
\* property.
SecurityPaths ==
    security_properties \cup {ProviderPath(f) : f \in security_properties}

\* The payload of the only provider call of the outcome.
Payload == outcome.calls[1].payload[1]

HasPayload == Len(outcome.calls) = 1 /\ outcome.calls[1].payload # <<>>

\* C17: the payload that Repository.apply_live_patch sends for the ADD or the
\* CHANGE patch of a repository whose expected private is True, and the
\* mapping that Repository.get_mapping_to_provider builds for data whose
\* private is True, have no security_and_analysis entry and none of the
\* keys secret_scanning, secret_scanning_push_protection and
\* dependabot_security_updates_enabled.
C17_PrivateOmitsSecurity ==
    /\ (/\ Ran("Repository.apply_live_patch")
        /\ call.expected_object # <<>>
        /\ HasPayload)
       => (call.expected_object[1].private = "True"
              => DOMAIN Payload \cap SecurityPaths = {})
    /\ (/\ Ran("Repository.get_mapping_to_provider")
        /\ HasReturned
        /\ "private" \in DOMAIN call.data)
       => (call.data["private"] = "True"
              => DOMAIN outcome.result.value \cap SecurityPaths = {})

\* A private repository with secret scanning enabled is added.
C17_Witness ==
    /\ Ran("Repository.apply_live_patch")
    /\ call.patch.patch_type = "ADD"
    /\ call.expected_object[1].private = "True"
    /\ call.expected_object[1].secret_scanning = "enabled"
    /\ HasPayload
    /\ "private" \in DOMAIN Payload
    /\ DOMAIN Payload \cap SecurityPaths = {}

\* A private repository whose secret scanning differs is changed.
C17_WitnessChange ==
    /\ Ran("Repository.apply_live_patch")
    /\ call.patch.patch_type = "CHANGE"
    /\ call.expected_object[1].private = "True"
    /\ call.expected_object[1].secret_scanning = "enabled"
    /\ call.current_object[1].secret_scanning = "disabled"
    /\ HasPayload
    /\ DOMAIN Payload \cap SecurityPaths = {}

\* Data with private True and a security property.
C17_WitnessData ==
    /\ Ran("Repository.get_mapping_to_provider")
    /\ HasReturned
    /\ DOMAIN call.data = {"private", "secret_scanning"}
    /\ call.data["private"] = "True"
    /\ call.data["secret_scanning"] = "enabled"
    /\ DOMAIN outcome.result.value = {"private"}

\* The field that a path of a payload is sourced from.
FieldOfPath(path) ==
    LET nested == {f \in security_properties \cup gh_pages_properties
                               \cup {"gh_pages_build_type"} : ProviderPath(f) = path}
    IN  IF nested = {} THEN path ELSE CHOOSE f \in nested : TRUE

\* The fields that a payload is built from.
SourceFields(payload) == {FieldOfPath(path) : path \in DOMAIN payload}

\* The only call of the outcome is the create operation with a payload built
\* from the fields of the expected object.
IsCreate(operation, parent, name, expected) ==
    LET c == outcome.calls[1]
    IN  /\ c.operation = operation
        /\ c.parent = parent
        /\ c.name = name
        /\ c.payload # <<>>
        /\ SourceFields(c.payload[1]) \subseteq DOMAIN expected
        /\ \A f \in DOMAIN c.payload[1] \cap {"name", "description", "private", "wait_timer"} :
               c.payload[1][f] = expected[f]

\* The only call of the outcome is the delete operation, with the names and
\* no payload.
IsDelete(operation, parent, name) ==
    outcome.calls[1] = ProviderCall(operation, parent, name, <<>>, None)

\* The only call of the outcome is the update operation with a payload built
\* from the fields of the changes only.
IsUpdate(operation, parent, name, changes) ==
    LET c == outcome.calls[1]
    IN  /\ c.operation = operation
        /\ c.parent = parent
        /\ c.name = name
        /\ c.payload # <<>>
        /\ SourceFields(c.payload[1]) \subseteq DOMAIN changes
        /\ \A f \in DOMAIN c.payload[1] \cap {"name", "description", "private", "wait_timer"} :
               c.payload[1][f] = changes[f].to_value

\* What the code does guarantee: one provider operation for a patch whose
\* payload can be built, chosen by the patch type: the create operation with
\* a payload built from the expected object for ADD, the delete operation
\* with the current object's name (and the parent's name for an environment)
\* and no payload for REMOVE, the update operation with the current object's
\* name and a payload built from the fields of the changes only for CHANGE.
\* If building the payload raises, no operation is called.
C18_ApplyDispatch ==
    /\ Ran("Repository.apply_live_patch") =>
           IF HasRaised
           THEN outcome.calls = <<>> /\ call.patch.patch_type # "REMOVE"
           ELSE /\ Len(outcome.calls) = 1
                /\ CASE call.patch.patch_type = "ADD" ->
                            IsCreate("add_repo", call.org_id, None, call.expected_object[1])
                     [] call.patch.patch_type = "REMOVE" ->
                            IsDelete("delete_repo", call.org_id, call.current_object[1].name)
                     [] call.patch.patch_type = "CHANGE" ->
                            IsUpdate("update_repo", call.org_id,
                                     call.current_object[1].name, call.patch.changes)
    /\ Ran("Environment.apply_live_patch") =>
           IF HasRaised
           THEN outcome.calls = <<>> /\ call.patch.patch_type # "REMOVE"
           ELSE /\ Len(outcome.calls) = 1
                /\ CASE call.patch.patch_type = "ADD" ->
                            IsCreate("add_repo_environment", call.parent_object.name,
                                     call.expected_object[1].name, call.expected_object[1])
                     [] call.patch.patch_type = "REMOVE" ->
                            IsDelete("delete_repo_environment", call.parent_object.name,
                                     call.current_object[1].name)
                     [] call.patch.patch_type = "CHANGE" ->
                            IsUpdate("update_repo_environment", call.parent_object.name,
                                     call.current_object[1].name, call.patch.changes)

\* C18: Repository.apply_live_patch and Environment.apply_live_patch call
\* exactly one provider operation for every patch, chosen by the patch type:
\* the create operation for ADD, the delete operation addressed by the
\* current object's name for REMOVE, the update operation addressed by the
\* current object's name for CHANGE. (A CHANGE patch of a repository whose
\* changes hold an unset gh_pages_source_path raises KeyError while the
\* payload is built, and no operation is called.)
C18_ExactlyOneOperation ==
    Ran("Repository.apply_live_patch") \/ Ran("Environment.apply_live_patch") =>
        /\ Len(outcome.calls) = 1
        /\ outcome.calls[1].operation =
               (CASE call.patch.patch_type = "ADD" -> "add_repo"
                  [] call.patch.patch_type = "REMOVE" -> "delete_repo"
                  [] call.patch.patch_type = "CHANGE" -> "update_repo")
               \o (IF call.op = "Environment.apply_live_patch" THEN "_environment" ELSE "")

\* The CHANGE patch of a repository with a changed gh_pages_source_branch and
\* an unset gh_pages_source_path: KeyError, and no operation is called.
C18_WitnessKeyError ==
    /\ Ran("Repository.apply_live_patch")
    /\ call.patch.patch_type = "CHANGE"
    /\ "gh_pages_source_path" \in DOMAIN call.patch.changes
    /\ is_unset(call.patch.changes["gh_pages_source_path"].to_value)
    /\ outcome.result = Raised("KeyError")
    /\ outcome.calls = <<>>

\* A renamed repository with another change: update_repo is called for the
\* current name with the two changed fields.
C18_Witness ==
    /\ Ran("Repository.apply_live_patch")
    /\ call.patch.patch_type = "CHANGE"
    /\ call.expected_object[1].name = "y"
    /\ call.expected_object[1].gh_pages_build_type = "disabled"
    /\ Len(outcome.calls) = 1
    /\ outcome.calls[1].operation = "update_repo"
    /\ outcome.calls[1].name = "x"
    /\ DOMAIN outcome.calls[1].payload[1] = {"name", "gh_pages.build_type"}
    /\ outcome.calls[1].payload[1]["name"] = "y"

\* An environment is removed.
C18_WitnessRemove ==
    /\ Ran("Environment.apply_live_patch")
    /\ call.patch.patch_type = "REMOVE"
    /\ outcome.calls = <<ProviderCall("delete_repo_environment", "x", "prod", <<>>, None)>>

\* An environment is added.
C18_WitnessAdd ==
    /\ Ran("Environment.apply_live_patch")
    /\ call.patch.patch_type = "ADD"
    /\ HasPayload
    /\ outcome.calls[1].operation = "add_repo_environment"
    /\ outcome.calls[1].name = "dev"

\* Building the payload raises: no operation is called.
C18_WitnessRaised ==
    /\ Ran("Environment.apply_live_patch")
    /\ call.patch.patch_type = "CHANGE"
    /\ HasRaised
    /\ outcome.calls = <<>>

\* The statuses that delete_reference takes as "already gone": the conflict
\* answer and the answer of the provider for a reference that does not exist
\* (an unprocessable request).
AlreadyGone == {409, 422}

C19_WitnessConflict ==
    /\ Ran("ReferenceClient.delete_reference")
    /\ call.status = 409
    /\ outcome.result = Returned("False")

\* An unexpected status raises.
C19_WitnessRaised ==
    /\ Ran("ReferenceClient.delete_reference")
    /\ call.status = 500
    /\ outcome.result = Raised("RuntimeError")

\* The provider's data reports a reviewer whose type is neither "User" nor
\* "Team".
HasUnknownReviewerType(data) ==
    \E i \in DOMAIN data.protection_rules :
        /\ data.protection_rules[i].type = "required_reviewers"
        /\ \E j \in DOMAIN data.protection_rules[i].reviewers :
               data.protection_rules[i].reviewers[j].type \notin {"User", "Team"}

\* The provider's policy is not null and has neither flag set to true.
HasUnknownProviderPolicy(data) ==
    /\ data.deployment_branch_policy.json # "null"
    /\ data.deployment_branch_policy.protected_branches # "True"
    /\ data.deployment_branch_policy.custom_branch_policies # "True"

\* The local data has a deployment_branch_policy outside the three values.
HasUnknownLocalPolicy(data) ==
    /\ "deployment_branch_policy" \in DOMAIN data
    /\ ~is_unset(data["deployment_branch_policy"])
    /\ data["deployment_branch_policy"] \notin {"all", "protected", "selected"}

\* C20: the Environment mappings raise an error, and return no entity and
\* no payload, for a reviewer of the provider whose type is neither "User"
\* nor "Team", for a non-null deployment_branch_policy of the provider with
\* neither protected_branches nor custom_branch_policies true, and for a
\* local deployment_branch_policy outside {"all", "protected", "selected"}
\* that is mapped to the provider; what they return has a policy of the
\* closed set only.
C20_UnknownValuesFailFast ==
    /\ Ran("Environment.from_provider_data") =>
           /\ HasUnknownReviewerType(call.data) => HasRaised
           /\ HasUnknownProviderPolicy(call.data) => HasRaised
           /\ HasReturned =>
                  outcome.result.value.deployment_branch_policy
                      \in {"all", "protected", "selected"}
    /\ Ran("Environment.get_mapping_to_provider") =>
           /\ HasUnknownLocalPolicy(call.data) => HasRaised
           /\ HasReturned /\ "deployment_branch_policy" \in DOMAIN outcome.result.value =>
                  outcome.result.value["deployment_branch_policy"]
                      \in {K(Null), K(PolicyObject("True", "False")),
                           K(PolicyObject("False", "True"))}

\* The provider reports a policy with both flags false.
C20_Witness ==
    /\ Ran("Environment.from_provider_data")
    /\ call.data.deployment_branch_policy =
           [json |-> "object", protected_branches |-> "False",
            custom_branch_policies |-> "False"]
    /\ ~HasUnknownReviewerType(call.data)
    /\ outcome.result = Raised("ValueError")

\* The provider reports a reviewer that is an App, after a User.
C20_WitnessReviewer ==
    /\ Ran("Environment.from_provider_data")
    /\ ~HasUnknownProviderPolicy(call.data)
    /\ \E i \in DOMAIN call.data.protection_rules :
           /\ Len(call.data.protection_rules[i].reviewers) = 2
           /\ call.data.protection_rules[i].reviewers[1].type = "User"
           /\ call.data.protection_rules[i].reviewers[2].type = "App"
    /\ outcome.result = Raised("RuntimeError")

\* A local policy outside the three values is mapped to the provider.
C20_WitnessLocal ==
    /\ Ran("Environment.get_mapping_to_provider")
    /\ HasUnknownLocalPolicy(call.data)
    /\ outcome.result = Raised("RuntimeError")

\* The valid values are mapped, not raised.
C20_WitnessValid ==
    /\ Ran("Environment.from_provider_data")
    /\ call.data.deployment_branch_policy.custom_branch_policies = "True"
    /\ HasReturned
    /\ outcome.result.value.deployment_branch_policy = "selected"

\* The three values of the provider that name a policy.
CanonicalProviderPolicies ==
    {Null, PolicyObject("True", "False"), PolicyObject("False", "True")}

\* C21: a deployment branch policy of the provider that is null,
\* {protected_branches: true, custom_branch_policies: false} or
\* {protected_branches: false, custom_branch_policies: true} is mapped from
\* the provider and back to the provider to itself, and a local value
\* "all", "protected" or "selected" is mapped to the provider and back to
\* itself.
C21_PolicyRoundTrip ==
    /\ Ran("transform_policy, get_mapping_to_provider") =>
           (call.policy \in CanonicalProviderPolicies =>
                outcome.result = Returned(call.policy))
    /\ Ran("get_mapping_to_provider, transform_policy") =>
           (call.policy \in {"all", "protected", "selected"} =>
                outcome.result = Returned(call.policy))

\* The custom branch policies of the provider go through "selected".
C21_Witness ==
    /\ Ran("transform_policy, get_mapping_to_provider")
    /\ call.policy = PolicyObject("False", "True")
    /\ outcome.result = Returned(PolicyObject("False", "True"))

\* The local "protected" goes through the provider's object.
C21_WitnessLocal ==
    /\ Ran("get_mapping_to_provider, transform_policy")
    /\ call.policy = "protected"
    /\ outcome.result = Returned("protected")

\* The null of the provider goes through "all".
C21_WitnessNull ==
    /\ Ran("transform_policy, get_mapping_to_provider")
    /\ call.policy = Null
    /\ outcome.result = Returned(Null)

\* Outside the three values the provider's policy is not reproduced: both
\* flags true come back as protected branches only.
C21_WitnessBothFlags ==
    /\ Ran("transform_policy, get_mapping_to_provider")
    /\ call.policy = PolicyObject("True", "True")
    /\ outcome.result = Returned(PolicyObject("True", "False"))

(***************************************************************************)
(* The branch policies of an environment                                   *)
(***************************************************************************)
\* The CHANGE patches of the environment env_name of the repository parent.
EnvironmentChanges(parent, env_name) ==
    {k \in DOMAIN patches :
        /\ patches[k].model = "environment"
        /\ patches[k].parent = parent
        /\ patches[k].patch_type = "CHANGE"
        /\ patches[k].expected = env_name}

\* The pairs <<expected environment, current environment>> of the same name
\* in a current repository and the expected repository it is reconciled
\* with.
MatchedEnvironments ==
    UNION {{<<e, c, expected_repos[Counterpart(i)].name>> :
               <<e, c>> \in {pair \in Range(expected_repos[Counterpart(i)].environments)
                                       \X Range(fetched_repos[i].environments) :
                                 pair[1].name = pair[2].name}} :
           i \in {j \in DOMAIN fetched_repos : Counterpart(j) # 0}}

\* C22: for an expected environment whose deployment_branch_policy is not
\* "selected", the CHANGE patch of the environment never has
\* branch_policies among its changes, even if the expected and the current
\* branch_policies differ; with the policy "selected", a set expected
\* branch_policies that differs from the current one is among the changes.
C22_BranchPoliciesInert ==
    Done =>
        \A m \in MatchedEnvironments :
            LET e == m[1]
                c == m[2]
                changes == EnvironmentChanges(m[3], e.name)
            IN  IF e.deployment_branch_policy # "selected"
                THEN \A k \in changes : "branch_policies" \notin DOMAIN patches[k].changes
                ELSE ~is_unset(e.branch_policies) /\ e.branch_policies # c.branch_policies =>
                         /\ Cardinality(changes) = 1
                         /\ \A k \in changes :
                                /\ "branch_policies" \in DOMAIN patches[k].changes
                                /\ patches[k].changes["branch_policies"]
                                       = Change(c.branch_policies, e.branch_policies)

\* The expected policy is "all", the branch policies differ and so does the
\* wait timer: the CHANGE patch has the wait timer only.
C22_Witness ==
    /\ Done
    /\ \E m \in MatchedEnvironments :
           /\ m[1].deployment_branch_policy = "all"
           /\ m[1].branch_policies = "[main]"
           /\ m[2].branch_policies = "[]"
           /\ \E k \in EnvironmentChanges(m[3], m[1].name) :
                  DOMAIN patches[k].changes = {"wait_timer"}

\* The branch policies are the only difference and the policy is "all": no
\* CHANGE patch.
C22_WitnessNoPatch ==
    /\ Done
    /\ \E m \in MatchedEnvironments :
           /\ m[1].deployment_branch_policy = "all"
           /\ m[1].branch_policies = "[main]"
           /\ m[2].deployment_branch_policy = "all"
           /\ m[2].branch_policies = "[]"
           /\ EnvironmentChanges(m[3], m[1].name) = {}

\* The policy is "selected": the difference is reported.
C22_WitnessSelected ==
    /\ Done
    /\ \E m \in MatchedEnvironments :
           /\ m[1].deployment_branch_policy = "selected"
           /\ m[2].deployment_branch_policy = "selected"
           /\ \E k \in EnvironmentChanges(m[3], m[1].name) :
                  /\ DOMAIN patches[k].changes = {"branch_policies", "wait_timer"}
                  /\ patches[k].changes["branch_policies"] = Change("[dev]", "[main]")

\* The expected policy is unset: the branch policies are left out too.
C22_WitnessUnsetPolicy ==
    /\ Done
    /\ \E m \in MatchedEnvironments :
           /\ is_unset(m[1].deployment_branch_policy)
           /\ m[1].branch_policies = "[main]"
           /\ m[2].branch_policies = "[]"
           /\ m[2].wait_timer = "0"
           /\ EnvironmentChanges(m[3], m[1].name) = {}

(***************************************************************************)
(* Validation                                                              *)
(*                                                                         *)
(* validate(self, context, parent_object) appends its findings to the      *)
(* failures of the ValidationContext. A finding is [failure_type, rule],   *)
(* the rule naming the add_failure call that made it in place of its       *)
(* message. The model of a validate gives [result, failures]: what the     *)
(* call returned or raised, and the failures of the context after it.      *)
(***************************************************************************)
\* ValidationContext.add_failure(failure_type, message)
add_failure(failures, failure_type, rule) ==
    Append(failures, [failure_type |-> failure_type, rule |-> rule])

\* The integer that a token of wait_timer stands for.
Number(value) ==
    CASE value = "-1" -> 0 - 1
      [] value = "0" -> 0
      [] value = "1" -> 1
      [] value = "30" -> 30
      [] value = "43199" -> 43199
      [] value = "43200" -> 43200
      [] value = "43201" -> 43201
      [] value = "99999" -> 99999

\* The number of items of the list that a token stands for.
ListLength(value) ==
    CASE value = "[]" -> 0
      [] value = "[main]" -> 1
      [] value = "[main, dev]" -> 2

\* Python's len(value): TypeError for None; for the UNSET sentinel, whose
\* class is not under src/, either 0 (unset_has_len) or TypeError.
len(value, unset_has_len) ==
    IF value = None THEN Raised("TypeError")
    ELSE IF is_unset(value)
    THEN IF unset_has_len THEN Returned(0) ELSE Raised("TypeError")
    ELSE Returned(ListLength(value))

\* The range of wait_timer excludes its two ends (a mutant of
\* EnvironmentValidate).
EnvironmentValidateOpenRange(self, failures, unset_has_len) ==
    IF ~is_unset(self.wait_timer) /\ self.wait_timer # None
       /\ ~(0 < Number(self.wait_timer) /\ Number(self.wait_timer) < 43200)
    THEN [result |-> Returned(None),
          failures |-> add_failure(failures, "ERROR", "wait_timer")]
    ELSE [result |-> Returned(None), failures |-> failures]

\* The warning for branch_policies is given under every policy, "selected"
\* too (a mutant of EnvironmentValidate).
EnvironmentValidateWarningForSelected(self, failures, unset_has_len) ==
    LET length == len(self.branch_policies, unset_has_len)
    IN  IF is_set_and_valid(self.deployment_branch_policy)
           /\ length.state = "returned" /\ length.value > 0
        THEN [result |-> Returned(None),
              failures |-> add_failure(failures, "WARNING", "branch_policies")]
        ELSE [result |-> Returned(None), failures |-> failures]

\* Environment.validate(context, parent_object)
EnvironmentValidate(self, failures, unset_has_len) ==
    LET wait_timer_compared == ~is_unset(self.wait_timer)
        after_wait_timer ==
            IF /\ wait_timer_compared
               /\ ~(0 <= Number(self.wait_timer) /\ Number(self.wait_timer) <= 43200)
            THEN add_failure(failures, "ERROR", "wait_timer")
            ELSE failures
        policy_checked == is_set_and_valid(self.deployment_branch_policy)
        after_policy ==
            IF /\ policy_checked
               /\ self.deployment_branch_policy \notin {"all", "protected", "selected"}
            THEN add_failure(after_wait_timer, "ERROR", "deployment_branch_policy")
            ELSE after_wait_timer
        length_taken == policy_checked /\ self.deployment_branch_policy # "selected"
        length == len(self.branch_policies, unset_has_len)
    IN  IF wait_timer_compared /\ self.wait_timer = None
        THEN [result |-> Raised("TypeError"), failures |-> failures]
        ELSE IF length_taken /\ length.state = "raised"
        THEN [result |-> length, failures |-> after_policy]
        ELSE IF length_taken /\ length.value > 0
        THEN [result |-> Returned(None),
              failures |-> add_failure(after_policy, "WARNING", "branch_policies")]
        ELSE [result |-> Returned(None), failures |-> after_policy]

(***************************************************************************)
(* Repository.validate                                                     *)
(***************************************************************************)
\* otterdog.utils.is_set_and_present
is_set_and_present(value) == value # UNSET /\ value # None

\* The number of characters of the description that a token stands for.
DescriptionLength(value) ==
    CASE value = "a" -> 1
      [] value = "d160" -> 160
      [] value = "d161" -> 161
      [] value = "d350" -> 350
      [] value = "d351" -> 351

\* for env in self.environments: env.validate(context, self); the first
\* exception ends the loop.
RECURSIVE ValidateEnvironments(_, _, _)
ValidateEnvironments(environments, failures, unset_has_len) ==
    IF environments = <<>> THEN [result |-> Returned(None), failures |-> failures]
    ELSE LET r == EnvironmentValidate(Head(environments), failures, unset_has_len)
         IN  IF r.result.state = "raised" THEN r
             ELSE ValidateEnvironments(Tail(environments), r.failures, unset_has_len)

\* The findings of a list of rules, in order: a rule is
\* [violated, failure_type, rule].
RECURSIVE AddFailures(_, _)
AddFailures(failures, rules) ==
    IF rules = <<>> THEN failures
    ELSE AddFailures(IF Head(rules).violated
                     THEN add_failure(failures, Head(rules).failure_type, Head(rules).rule)
                     ELSE failures,
                     Tail(rules))

\* One check of a validate.
Rule(violated, failure_type, rule) ==
    [violated |-> violated, failure_type |-> failure_type, rule |-> rule]

\* The missing github-pages environment of the site repository is an ERROR
\* (a mutant of GitHubPagesRules).
GitHubPagesRulesSiteError(self, github_id) ==
    LET no_environment ==
            \A i \in DOMAIN self.environments :
                self.environments[i].name # "github-pages"
    IN  IF Lower(self.name) = Lower(github_id \o ".github.io")
        THEN <<Rule(self.gh_pages_build_type = "disabled", "ERROR",
                    "site: gh_pages_build_type disabled"),
               Rule(no_environment, "ERROR", "site: no github-pages environment")>>
        ELSE <<>>

\* The part of Repository.validate about GitHub Pages: the rules of the
\* organization site, or else those of a set gh_pages_build_type.
GitHubPagesRules(self, github_id) ==
    LET no_environment ==
            \A i \in DOMAIN self.environments :
                self.environments[i].name # "github-pages"
    IN  IF Lower(self.name) = Lower(github_id \o ".github.io")
        THEN <<Rule(self.gh_pages_build_type = "disabled", "ERROR",
                    "site: gh_pages_build_type disabled"),
               Rule(no_environment, "WARNING", "site: no github-pages environment")>>
        ELSE IF is_set_and_valid(self.gh_pages_build_type)
        THEN <<Rule(self.gh_pages_build_type \notin {"disabled", "legacy", "workflow"},
                    "ERROR", "gh_pages_build_type"),
               Rule(self.gh_pages_build_type = "disabled"
                        /\ self.gh_pages_source_branch # None,
                    "WARNING", "disabled: gh_pages_source_branch"),
               Rule(self.gh_pages_build_type = "disabled"
                        /\ self.gh_pages_source_path # None,
                    "WARNING", "disabled: gh_pages_source_path"),
               Rule(self.gh_pages_build_type \in {"legacy", "workflow"} /\ no_environment,
                    "WARNING", "no github-pages environment")>>
        ELSE <<>>

\* Repository.validate(context, parent_object), parent_object being the
\* GitHubOrganization: [github_id, settings]. The validate of the webhooks,
\* secrets, branch protection rules and workflow settings is not modelled.
RepositoryValidate(self, failures, parent_object, unset_has_len) ==
    LET github_id == parent_object.github_id
        org_settings == parent_object.settings
        free_plan == org_settings.plan = "free"
        org_has_projects_disabled == org_settings.has_repository_projects = "False"
        org_web_commit_signoff_required == org_settings.web_commit_signoff_required = "True"
        org_members_cannot_fork_private_repositories ==
            org_settings.members_can_fork_private_repositories = "False"
        org_has_discussions_enabled_with_repo_as_source ==
            /\ org_settings.has_discussions = "True"
            /\ org_settings.discussion_source_repository = github_id \o "/" \o self.name
        is_private == self.private = "True"
        is_public == self.private = "False"
        allow_forking == self.allow_forking = "True"
        disallow_forking == self.allow_forking = "False"
        has_wiki == self.has_wiki = "True"
        has_discussions_disabled == self.has_discussions = "False"
        has_projects == self.has_projects = "True"
        repo_web_commit_signoff_not_required == self.web_commit_signoff_required = "False"
        secret_scanning_disabled == self.secret_scanning = "disabled"
        secret_scanning_push_protection_enabled ==
            self.secret_scanning_push_protection = "enabled"
        own ==
            AddFailures(failures,
                <<Rule(is_set_and_present(self.description)
                           /\ DescriptionLength(self.description) > 350,
                       "ERROR", "description"),
                  Rule(is_public /\ disallow_forking, "WARNING", "public: allow_forking"),
                  Rule(is_private /\ has_wiki /\ free_plan, "WARNING", "has_wiki"),
                  Rule(has_discussions_disabled
                           /\ org_has_discussions_enabled_with_repo_as_source,
                       "ERROR", "has_discussions"),
                  Rule(has_projects /\ org_has_projects_disabled, "INFO", "has_projects"),
                  Rule(is_private /\ org_members_cannot_fork_private_repositories
                           /\ allow_forking,
                       "ERROR", "private: allow_forking"),
                  Rule(repo_web_commit_signoff_not_required
                           /\ org_web_commit_signoff_required,
                       "ERROR", "web_commit_signoff_required"),
                  Rule(secret_scanning_disabled /\ secret_scanning_push_protection_enabled
                           /\ self.archived = "False",
                       "ERROR", "secret_scanning"),
                  Rule(self.archived = "True" /\ Len(self.branch_protection_rules) > 0,
                       "INFO", "branch_protection_rules")>>
                \o GitHubPagesRules(self, github_id))
    IN  ValidateEnvironments(self.environments, own, unset_has_len)

(***************************************************************************)
(* OrganizationSettings.validate and OrganizationWorkflowSettings.validate *)
(***************************************************************************)
\* "/" in value, for the tokens of discussion_source_repository.
HasSlash(value) == value \in {"org/x", "org/y"}

\* OrganizationSettings.validate(context, parent_object); the custom
\* validation script is not modelled.
OrganizationSettingsValidate(self, failures) ==
    LET dependabot_alerts_enabled ==
            self.dependabot_alerts_enabled_for_new_repositories = "True"
        dependabot_security_updates_enabled ==
            self.dependabot_security_updates_enabled_for_new_repositories = "True"
        dependency_graph_disabled ==
            self.dependency_graph_enabled_for_new_repositories = "False"
    IN  [result |-> Returned(None),
         failures |->
            AddFailures(failures,
                <<Rule(is_set_and_present(self.description)
                           /\ DescriptionLength(self.description) > 160,
                       "ERROR", "description"),
                  Rule((dependabot_alerts_enabled \/ dependabot_security_updates_enabled)
                           /\ dependency_graph_disabled,
                       "ERROR", "dependency_graph"),
                  Rule(dependabot_security_updates_enabled /\ ~dependabot_alerts_enabled,
                       "ERROR", "dependabot_alerts"),
                  Rule(self.has_discussions = "True"
                           /\ ~is_set_and_valid(self.discussion_source_repository),
                       "ERROR", "has_discussions"),
                  Rule(is_set_and_present(self.discussion_source_repository)
                           /\ ~HasSlash(self.discussion_source_repository),
                       "ERROR", "discussion_source_repository"),
                  Rule(is_set_and_valid(self.default_workflow_permissions)
                           /\ self.default_workflow_permissions \notin {"read", "write"},
                       "ERROR", "default_workflow_permissions"),
                  Rule(is_set_and_valid(self.default_repository_permission)
                           /\ self.default_repository_permission
                                  \notin {"none", "read", "write", "admin"},
                       "ERROR", "default_repository_permission")>>)]

\* OrganizationWorkflowSettings.validate(context, parent_object); the
\* validate of the base class is not modelled.
OrganizationWorkflowSettingsValidate(self, failures, unset_has_len) ==
    LET checked == is_set_and_valid(self.enabled_repositories)
        after_enabled ==
            AddFailures(failures,
                <<Rule(checked /\ self.enabled_repositories \notin {"all", "none", "selected"},
                       "ERROR", "enabled_repositories")>>)
        length_taken == checked /\ self.enabled_repositories # "selected"
        length == len(self.selected_repositories, unset_has_len)
    IN  IF length_taken /\ length.state = "raised"
        THEN [result |-> length, failures |-> after_enabled]
        ELSE [result |-> Returned(None),
              failures |-> AddFailures(after_enabled,
                               <<Rule(length_taken /\ length.value > 0,
                                      "WARNING", "selected_repositories")>>)]

\* The environments that are validated.
ValidatedEnvironments ==
    {[name |-> "dev", wait_timer |-> wait_timer, reviewers |-> "[]",
      deployment_branch_policy |-> deployment_branch_policy,
      branch_policies |-> branch_policies] :
        wait_timer \in {"-1", "0", "1", "30", "43199", "43200", "43201", "99999", UNSET, None},
        deployment_branch_policy \in {"all", "protected", "selected", "other", "", UNSET, None},
        branch_policies \in {"[]", "[main]", "[main, dev]", UNSET, None}}

\* The settings of the organization that Repository.validate reads.
DefaultOrganizationSettings ==
    [plan |-> "team", has_repository_projects |-> "True",
     web_commit_signoff_required |-> "False",
     members_can_fork_private_repositories |-> "True",
     has_discussions |-> "False", discussion_source_repository |-> None]

GitHubOrganization(settings) == [github_id |-> "org", settings |-> settings]

\* The environments of a validated repository.
ValidatedRepositoryEnvironments ==
    LET env(name, wait_timer) ==
            [name |-> name, wait_timer |-> wait_timer, reviewers |-> "[]",
             deployment_branch_policy |-> "all", branch_policies |-> "[]"]
    IN  {<<>>, <<env("github-pages", "0")>>, <<env("dev", "99999")>>,
         <<env("dev", None), env("github-pages", "99999")>>,
         <<env("prod", "99999"), env("github-pages", "0")>>}

\* Repositories that differ in what the GitHub Pages rules read.
InitRepositoryValidatePages ==
    \E name \in {"x", "org.github.io", "ORG.github.io"},
       build_type \in {"disabled", "legacy", "workflow", "other", "", UNSET, None},
       branch \in {"main", None, UNSET},
       path \in {"/", None},
       environments \in ValidatedRepositoryEnvironments :
        call = [op |-> "Repository.validate",
                self |-> [DefaultRepository(name) EXCEPT
                             !.gh_pages_build_type = build_type,
                             !.gh_pages_source_branch = branch,
                             !.gh_pages_source_path = path,
                             !.allow_forking = "True",
                             !.environments = environments],
                parent_object |-> GitHubOrganization(DefaultOrganizationSettings),
                unset_has_len |-> FALSE]

\* Repositories that differ in what the rules on the organization's settings
\* and plan read.
InitRepositoryValidateOrganization ==
    \E private \in {"True", "False", UNSET},
       allow_forking, has_wiki, has_discussions, has_projects \in {"True", "False"},
       plan \in {"free", "team"},
       members_can_fork, has_repository_projects \in {"True", "False"},
       discussions \in {<<"True", "org/x">>, <<"True", "org/y">>, <<"False", "org/x">>} :
        call = [op |-> "Repository.validate",
                self |-> [DefaultRepository("x") EXCEPT
                             !.private = private, !.allow_forking = allow_forking,
                             !.has_wiki = has_wiki, !.has_discussions = has_discussions,
                             !.has_projects = has_projects,
                             !.gh_pages_build_type = UNSET],
                parent_object |-> GitHubOrganization(
                    [DefaultOrganizationSettings EXCEPT
                        !.plan = plan,
                        !.members_can_fork_private_repositories = members_can_fork,
                        !.has_repository_projects = has_repository_projects,
                        !.has_discussions = discussions[1],
                        !.discussion_source_repository = discussions[2]]),
                unset_has_len |-> FALSE]

\* Repositories that differ in what the other rules read.
InitRepositoryValidateOwn ==
    \E description \in {None, UNSET, "a", "d350", "d351"},
       signoff, org_signoff, archived \in {"True", "False"},
       secret_scanning, push_protection \in {"enabled", "disabled"},
       rules \in {<<>>, <<[name |-> "main", settings |-> "a"]>>} :
        call = [op |-> "Repository.validate",
                self |-> [DefaultRepository("x") EXCEPT
                             !.description = description,
                             !.web_commit_signoff_required = signoff,
                             !.archived = archived,
                             !.secret_scanning = secret_scanning,
                             !.secret_scanning_push_protection = push_protection,
                             !.branch_protection_rules = rules,
                             !.allow_forking = "True",
                             !.gh_pages_build_type = UNSET],
                parent_object |-> GitHubOrganization(
                    [DefaultOrganizationSettings EXCEPT
                        !.web_commit_signoff_required = org_signoff]),
                unset_has_len |-> FALSE]

\* The settings of an organization that are validated.
InitOrganizationSettingsValidate ==
    \E description \in {None, "a", "d160", "d161"},
       alerts, updates, graph \in {"True", "False"},
       discussions \in {<<"True", "org/x">>, <<"True", "x">>, <<"True", None>>,
                        <<"True", UNSET>>, <<"False", "x">>, <<"False", None>>},
       workflow_permissions \in {"read", "write", "other", "", UNSET, None},
       repository_permission \in {"none", "read", "write", "admin", "other", UNSET, None} :
        call = [op |-> "OrganizationSettings.validate",
                self |-> [description |-> description,
                          dependabot_alerts_enabled_for_new_repositories |-> alerts,
                          dependabot_security_updates_enabled_for_new_repositories |-> updates,
                          dependency_graph_enabled_for_new_repositories |-> graph,
                          has_discussions |-> discussions[1],
                          discussion_source_repository |-> discussions[2],
                          default_workflow_permissions |-> workflow_permissions,
                          default_repository_permission |-> repository_permission]]

\* The workflow settings of an organization that are validated.
InitOrganizationWorkflowSettingsValidate ==
    \E enabled_repositories \in {"all", "none", "selected", "other", "", UNSET, None},
       selected_repositories \in {"[]", "[main]", UNSET, None},
       unset_has_len \in BOOLEAN :
        call = [op |-> "OrganizationWorkflowSettings.validate",
                self |-> [enabled_repositories |-> enabled_repositories,
                          selected_repositories |-> selected_repositories],
                unset_has_len |-> unset_has_len]

\* A new ValidationContext.
NewValidationContext == [validation_failures |-> <<>>]

InitEnvironmentValidate ==
    \E self \in ValidatedEnvironments, unset_has_len \in BOOLEAN :
        call = [op |-> "Environment.validate", self |-> self,
                unset_has_len |-> unset_has_len]

InitValidate ==
    /\ expected_repos = <<>>
    /\ current_repos = <<>>
    /\ fetched_repos = <<>>
    /\ context = NewValidationContext
    /\ patches = <<>>
    /\ pc = "start"
    /\ outcome = NoOutcome
    /\ \/ InitEnvironmentValidate
       \/ InitRepositoryValidatePages
       \/ InitRepositoryValidateOrganization
       \/ InitRepositoryValidateOwn
       \/ InitOrganizationSettingsValidate
       \/ InitOrganizationWorkflowSettingsValidate

CallEnvironmentValidate ==
    /\ pc = "start"
    /\ call.op = "Environment.validate"
    /\ LET r == EnvironmentValidate(call.self, context.validation_failures,
                                    call.unset_has_len)
       IN  /\ outcome' = [result |-> r.result, calls |-> <<>>]
           /\ context' = [validation_failures |-> r.failures]
    /\ pc' = "done"
    /\ UNCHANGED <<expected_repos, current_repos, fetched_repos, patches, call>>

CallRepositoryValidate ==
    /\ pc = "start"
    /\ call.op = "Repository.validate"
    /\ LET r == RepositoryValidate(call.self, context.validation_failures,
                                   call.parent_object, call.unset_has_len)
       IN  /\ outcome' = [result |-> r.result, calls |-> <<>>]
           /\ context' = [validation_failures |-> r.failures]
    /\ pc' = "done"
    /\ UNCHANGED <<expected_repos, current_repos, fetched_repos, patches, call>>

CallOrganizationSettingsValidate ==
    /\ pc = "start"
    /\ call.op = "OrganizationSettings.validate"
    /\ LET r == OrganizationSettingsValidate(call.self, context.validation_failures)
       IN  /\ outcome' = [result |-> r.result, calls |-> <<>>]
           /\ context' = [validation_failures |-> r.failures]
    /\ pc' = "done"
    /\ UNCHANGED <<expected_repos, current_repos, fetched_repos, patches, call>>

CallOrganizationWorkflowSettingsValidate ==
    /\ pc = "start"
    /\ call.op = "OrganizationWorkflowSettings.validate"
    /\ LET r == OrganizationWorkflowSettingsValidate(
                    call.self, context.validation_failures, call.unset_has_len)
       IN  /\ outcome' = [result |-> r.result, calls |-> <<>>]
           /\ context' = [validation_failures |-> r.failures]
    /\ pc' = "done"
    /\ UNCHANGED <<expected_repos, current_repos, fetched_repos, patches, call>>

NextValidate ==
    \/ CallEnvironmentValidate
    \/ CallRepositoryValidate
    \/ CallOrganizationSettingsValidate
    \/ CallOrganizationWorkflowSettingsValidate

SpecValidate == InitValidate /\ [][NextValidate]_vars

(***************************************************************************)
(* Properties of validation                                                *)
(***************************************************************************)
\* The findings of the context made by the rule, of the failure type.
Findings(failure_type, rule) ==
    {k \in DOMAIN context.validation_failures :
        context.validation_failures[k] = [failure_type |-> failure_type, rule |-> rule]}

\* The findings of the context made by the rule, of any failure type.
FindingsOf(rule) ==
    {k \in DOMAIN context.validation_failures :
        context.validation_failures[k].rule = rule}

\* wait_timer is a number outside the closed range [0, 43200].
OutsideRange(wait_timer) ==
    /\ is_set_and_valid(wait_timer)
    /\ (Number(wait_timer) < 0 \/ Number(wait_timer) > 43200)

\* C27: Environment.validate adds exactly one ERROR finding for wait_timer
\* if and only if wait_timer is set and lies outside the closed range
\* [0, 43200]; 0, 43200 and an unset wait_timer give no finding, and 99999
\* gives one ERROR.
C27_WaitTimerRange ==
    Ran("Environment.validate") =>
        /\ FindingsOf("wait_timer") = Findings("ERROR", "wait_timer")
        /\ IF OutsideRange(call.self.wait_timer)
           THEN Cardinality(Findings("ERROR", "wait_timer")) = 1
           ELSE Findings("ERROR", "wait_timer") = {}
        /\ call.self.wait_timer \in {"0", "43200", UNSET} =>
               FindingsOf("wait_timer") = {}

\* wait_timer = 99999 gives one ERROR, the only finding.
C27_Witness ==
    /\ Ran("Environment.validate")
    /\ call.self.wait_timer = "99999"
    /\ call.self.deployment_branch_policy = "all"
    /\ HasReturned
    /\ context.validation_failures = <<[failure_type |-> "ERROR", rule |-> "wait_timer"]>>

\* The upper end of the range gives no finding.
C27_WitnessBoundary ==
    /\ Ran("Environment.validate")
    /\ call.self.wait_timer = "43200"
    /\ HasReturned
    /\ context.validation_failures = <<>>

\* Just above the range.
C27_WitnessAbove ==
    /\ Ran("Environment.validate")
    /\ call.self.wait_timer = "43201"
    /\ Cardinality(Findings("ERROR", "wait_timer")) = 1

\* Just below the range.
C27_WitnessBelow ==
    /\ Ran("Environment.validate")
    /\ call.self.wait_timer = "-1"
    /\ Cardinality(Findings("ERROR", "wait_timer")) = 1

\* The policy is a value other than "selected" and branch_policies is a list
\* that is not empty.
PolicyMismatch(self) ==
    /\ is_set_and_valid(self.deployment_branch_policy)
    /\ self.deployment_branch_policy # "selected"
    /\ self.branch_policies \in {"[main]", "[main, dev]"}

C23_WitnessUnknownPolicy ==
    /\ Ran("Environment.validate")
    /\ call.self.deployment_branch_policy = "other"
    /\ call.self.branch_policies = "[main, dev]"
    /\ call.self.wait_timer = UNSET
    /\ context.validation_failures
           = <<[failure_type |-> "ERROR", rule |-> "deployment_branch_policy"],
               [failure_type |-> "WARNING", rule |-> "branch_policies"]>>

\* The policy "selected" with branch policies: no finding.
C23_WitnessSelected ==
    /\ Ran("Environment.validate")
    /\ call.self.deployment_branch_policy = "selected"
    /\ call.self.branch_policies = "[main]"
    /\ call.self.wait_timer = "0"
    /\ HasReturned
    /\ context.validation_failures = <<>>

\* An unset policy with branch policies: no finding either.
C23_WitnessUnsetPolicy ==
    /\ Ran("Environment.validate")
    /\ call.self.deployment_branch_policy = UNSET
    /\ call.self.branch_policies = "[main]"
    /\ call.self.wait_timer = "0"
    /\ HasReturned
    /\ context.validation_failures = <<>>

\* The value is set, not empty and outside the allowed values.
OutsideAllowed(value, allowed) ==
    is_set_and_valid(value) /\ value # "" /\ value \notin allowed

\* The repository is the site of the organization.
IsSiteRepository(self, parent_object) ==
    Lower(self.name) = Lower(parent_object.github_id \o ".github.io")

\* C24: for every enumerated string field (deployment_branch_policy of an
\* environment, gh_pages_build_type of a repository,
\* default_workflow_permissions and default_repository_permission of the
\* organization, enabled_repositories of the workflow settings) a set,
\* non-empty value outside the allowed values gives an ERROR finding, for
\* every entity, the site repository of the organization too. (For the site
\* repository the code does not check gh_pages_build_type.)
C24_EnumerationsEnforced ==
    /\ Ran("Environment.validate")
           /\ OutsideAllowed(call.self.deployment_branch_policy,
                             {"all", "protected", "selected"}) =>
           Findings("ERROR", "deployment_branch_policy") # {}
    /\ Ran("Repository.validate")
           /\ OutsideAllowed(call.self.gh_pages_build_type,
                             {"disabled", "legacy", "workflow"}) =>
           Findings("ERROR", "gh_pages_build_type") # {}
    /\ Ran("OrganizationSettings.validate")
           /\ OutsideAllowed(call.self.default_workflow_permissions, {"read", "write"}) =>
           Findings("ERROR", "default_workflow_permissions") # {}
    /\ Ran("OrganizationSettings.validate")
           /\ OutsideAllowed(call.self.default_repository_permission,
                             {"none", "read", "write", "admin"}) =>
           Findings("ERROR", "default_repository_permission") # {}
    /\ Ran("OrganizationWorkflowSettings.validate")
           /\ OutsideAllowed(call.self.enabled_repositories,
                             {"all", "none", "selected"}) =>
           Findings("ERROR", "enabled_repositories") # {}

\* The site repository with a gh_pages_build_type outside the allowed values
\* and its github-pages environment: validate returns without a finding.
C24_WitnessSite ==
    /\ Ran("Repository.validate")
    /\ call.self.name = "org.github.io"
    /\ call.self.gh_pages_build_type = "other"
    /\ Len(call.self.environments) = 1
    /\ HasReturned
    /\ context.validation_failures = <<>>

\* What the code does guarantee: the ERROR is given once for every entity
\* but the site repository, if validate gets as far as the check.
C24_EnumerationsExceptSite ==
    /\ Ran("Environment.validate")
           /\ call.self.wait_timer # None
           /\ OutsideAllowed(call.self.deployment_branch_policy,
                             {"all", "protected", "selected"}) =>
           Cardinality(Findings("ERROR", "deployment_branch_policy")) = 1
    /\ Ran("Repository.validate")
           /\ ~IsSiteRepository(call.self, call.parent_object)
           /\ OutsideAllowed(call.self.gh_pages_build_type,
                             {"disabled", "legacy", "workflow"}) =>
           Cardinality(Findings("ERROR", "gh_pages_build_type")) = 1
    /\ Ran("OrganizationSettings.validate")
           /\ OutsideAllowed(call.self.default_workflow_permissions, {"read", "write"}) =>
           Cardinality(Findings("ERROR", "default_workflow_permissions")) = 1
    /\ Ran("OrganizationSettings.validate")
           /\ OutsideAllowed(call.self.default_repository_permission,
                             {"none", "read", "write", "admin"}) =>
           Cardinality(Findings("ERROR", "default_repository_permission")) = 1
    /\ Ran("OrganizationWorkflowSettings.validate")
           /\ OutsideAllowed(call.self.enabled_repositories,
                             {"all", "none", "selected"}) =>
           Cardinality(Findings("ERROR", "enabled_repositories")) = 1

\* Another repository with the same value gets the ERROR.
C24_WitnessOther ==
    /\ Ran("Repository.validate")
    /\ call.self.name = "x"
    /\ call.self.gh_pages_build_type = "other"
    /\ Cardinality(Findings("ERROR", "gh_pages_build_type")) = 1

\* The findings of the two checks of the site repository.
SiteFindings ==
    FindingsOf("site: gh_pages_build_type disabled")
        \cup FindingsOf("site: no github-pages environment")

\* No environment of the repository is named github-pages.
NoPagesEnvironment(self) ==
    \A i \in DOMAIN self.environments : self.environments[i].name # "github-pages"

\* C25: for a repository named "<org>.github.io" the two additional checks
\* of Repository.validate (GitHub Pages enabled; a "github-pages"
\* environment configured) each give a finding of severity WARNING, never
\* ERROR, and a site repository with Pages enabled and no "github-pages"
\* environment gets exactly one such WARNING. (The code gives an ERROR for
\* disabled Pages.)
C25_SiteRemindersAreWarnings ==
    Ran("Repository.validate") /\ IsSiteRepository(call.self, call.parent_object) =>
        /\ \A k \in SiteFindings :
               context.validation_failures[k].failure_type = "WARNING"
        /\ call.self.gh_pages_build_type = "disabled" =>
               FindingsOf("site: gh_pages_build_type disabled") # {}
        /\ NoPagesEnvironment(call.self) =>
               FindingsOf("site: no github-pages environment") # {}
        /\ call.self.gh_pages_build_type \in {"legacy", "workflow"}
               /\ NoPagesEnvironment(call.self) =>
               Cardinality(SiteFindings) = 1

\* C25, as amended: for a repository named "<org>.github.io", disabled
\* GitHub Pages give exactly one ERROR finding and a missing "github-pages"
\* environment exactly one WARNING finding; the two checks give no other
\* finding, so a site repository with Pages enabled and no "github-pages"
\* environment gets exactly one WARNING from them and no ERROR; a repository
\* of another name gets no finding from these two checks.
C25_SiteErrorAndWarning ==
    Ran("Repository.validate") =>
        IF IsSiteRepository(call.self, call.parent_object)
        THEN /\ FindingsOf("site: gh_pages_build_type disabled")
                    = Findings("ERROR", "site: gh_pages_build_type disabled")
             /\ Cardinality(Findings("ERROR", "site: gh_pages_build_type disabled"))
                    = IF call.self.gh_pages_build_type = "disabled" THEN 1 ELSE 0
             /\ FindingsOf("site: no github-pages environment")
                    = Findings("WARNING", "site: no github-pages environment")
             /\ Cardinality(Findings("WARNING", "site: no github-pages environment"))
                    = IF NoPagesEnvironment(call.self) THEN 1 ELSE 0
             /\ FindingsOf("no github-pages environment") = {}
        ELSE SiteFindings = {}

\* The site repository with Pages enabled and no environment configured:
\* one WARNING, the only finding.
C25_Witness ==
    /\ Ran("Repository.validate")
    /\ call.self.name = "org.github.io"
    /\ call.self.gh_pages_build_type = "legacy"
    /\ call.self.environments = <<>>
    /\ HasReturned
    /\ context.validation_failures
           = <<[failure_type |-> "WARNING", rule |-> "site: no github-pages environment"]>>

\* The site repository with Pages disabled and no environment: the ERROR,
\* then the WARNING.
C25_WitnessDisabled ==
    /\ Ran("Repository.validate")
    /\ call.self.name = "ORG.github.io"
    /\ call.self.gh_pages_build_type = "disabled"
    /\ call.self.environments = <<>>
    /\ context.validation_failures
           = <<[failure_type |-> "ERROR", rule |-> "site: gh_pages_build_type disabled"],
               [failure_type |-> "WARNING", rule |-> "site: no github-pages environment"]>>


\* The validate calls the claim on the propagation policy names.
RanValidate ==
    \/ Ran("Environment.validate")
    \/ Ran("Repository.validate")
    \/ Ran("OrganizationSettings.validate")

\* C26: validation never raises and never stops early: for every
\* combination of set, null and unset field values Environment.validate,
\* Repository.validate and OrganizationSettings.validate return normally,
\* and every violated rule is reported by exactly one finding (shown here
\* on the rules of an environment: the range of wait_timer, the allowed
\* values of deployment_branch_policy, branch policies without the policy
\* "selected"). (The code raises TypeError for a null wait_timer.)
C26_ValidationNeverRaises ==
    /\ RanValidate => HasReturned
    /\ Ran("Environment.validate") =>
           /\ OutsideRange(call.self.wait_timer) =>
                  Cardinality(FindingsOf("wait_timer")) = 1
           /\ OutsideAllowed(call.self.deployment_branch_policy,
                             {"all", "protected", "selected"}) =>
                  Cardinality(FindingsOf("deployment_branch_policy")) = 1
           /\ PolicyMismatch(call.self) =>
                  Cardinality(FindingsOf("branch_policies")) = 1

\* An environment with a null wait_timer and a policy outside the allowed
\* values: validate raises TypeError at the comparison with 0 and no
\* finding is made.
C26_WitnessRaised ==
    /\ Ran("Environment.validate")
    /\ call.self.wait_timer = None
    /\ call.self.deployment_branch_policy = "other"
    /\ outcome.result = Raised("TypeError")
    /\ context.validation_failures = <<>>

\* A repository whose first environment has a null wait_timer: the
\* exception leaves Repository.validate, and the second environment, whose
\* wait_timer is 99999, is never validated.
C26_WitnessStopsEarly ==
    /\ Ran("Repository.validate")
    /\ Len(call.self.environments) = 2
    /\ call.self.environments[1].wait_timer = None
    /\ call.self.environments[2].wait_timer = "99999"
    /\ outcome.result = Raised("TypeError")
    /\ FindingsOf("wait_timer") = {}

\* With every field set to a value of its declared type, or unset where the
\* code tests for it, the three validate calls return.
C26_ReturnsOnTypedValues ==
    /\ Ran("OrganizationSettings.validate") => HasReturned
    /\ Ran("Environment.validate")
           /\ call.self.wait_timer # None
           /\ call.self.branch_policies \notin {UNSET, None} => HasReturned
    /\ Ran("Repository.validate")
           /\ (\A i \in DOMAIN call.self.environments :
                  call.self.environments[i].wait_timer # None) => HasReturned


\* The fields of the i-th current repository whose value is not the fetched
\* one.
ChangedFields(i) ==
    {f \in DOMAIN fetched_repos[i] : current_repos[i][f] # fetched_repos[i][f]}

\* C28: Repository.generate_live_patch_of_list asks nothing of the provider,
\* leaves the expected repositories and the context as they were and
\* changes no field of a current repository other than
\* web_commit_signoff_required of a current repository with a counterpart,
\* and that only when the organization's setting is modified to True, to
\* the value True; a second run on the same objects hands over the same
\* patches in the same order and changes nothing more.
C28_PatchGenerationPure ==
    [][pc = "start" /\ pc' = "done" =>
          /\ outcome' = outcome /\ outcome'.calls = <<>>
          /\ expected_repos' = expected_repos
          /\ context' = context
          /\ Len(current_repos') = Len(fetched_repos')
          /\ \A i \in DOMAIN fetched_repos' :
                 /\ DOMAIN current_repos'[i] = DOMAIN fetched_repos'[i]
                 /\ ChangedFields(i)' \subseteq {"web_commit_signoff_required"}
                 /\ ChangedFields(i)' # {} =>
                        /\ Counterpart(i)' # 0
                        /\ OrgSignoffChangedToTrue'
                        /\ current_repos'[i].web_commit_signoff_required = "True"
          /\ RepositoryGenerateLivePatchOfList(expected_repos', current_repos', context')
                 = [patches |-> patches', current |-> current_repos']
          /\ RepositoryGenerateLivePatchOfList(expected_repos, fetched_repos, context).patches
                 = patches'
    ]_vars

\* The setting is modified to True: the current repository matched through
\* an alias is changed in web_commit_signoff_required, the one without a
\* counterpart stays as fetched, and patches are handed over.
C28_Witness ==
    /\ Done
    /\ OrgSignoffChangedToTrue
    /\ Len(fetched_repos) = 2
    /\ expected_repos # <<>> /\ expected_repos[1].aliases = <<"x">>
    /\ \E i, j \in DOMAIN fetched_repos :
           /\ ChangedFields(i) = {"web_commit_signoff_required"}
           /\ Counterpart(j) = 0
           /\ fetched_repos[j].web_commit_signoff_required = "False"
           /\ ChangedFields(j) = {}
    /\ Len(patches) = 2
    /\ outcome.calls = <<>>

\* The setting is modified to False: no current repository is changed.
C28_WitnessToFalse ==
    /\ Done
    /\ "web_commit_signoff_required" \in DOMAIN context.modified_org_settings
    /\ ~OrgSignoffChangedToTrue
    /\ expected_repos # <<>>
    /\ expected_repos[1].web_commit_signoff_required = "True"
    /\ \E i \in DOMAIN fetched_repos :
           Counterpart(i) # 0 /\ fetched_repos[i].web_commit_signoff_required = "False"
    /\ current_repos = fetched_repos
    /\ patches # <<>>


\* The patches that are about the repository called name: its own patches
\* and the patches of its nested models.
PatchesAbout(name) ==
    {k \in DOMAIN patches :
        IF IsRepositoryPatch(patches[k])
        THEN name \in {patches[k].expected, patches[k].current}
        ELSE patches[k].parent = name}

\* C29: a current repository whose name is neither the name nor an alias of
\* an expected repository gets exactly one patch, the REMOVE patch of the
\* repository; none of its webhooks, secrets, environments, branch
\* protection rules or workflow settings gets a patch.
C29_RemovalIsSinglePatch ==
    Done =>
        \A i \in DOMAIN fetched_repos :
            Bearing(fetched_repos[i].name) = {} =>
                /\ Cardinality(RepositoryRemovals(fetched_repos[i].name)) = 1
                /\ PatchesAbout(fetched_repos[i].name)
                       = RepositoryRemovals(fetched_repos[i].name)
                /\ \A k \in RepositoryRemovals(fetched_repos[i].name) :
                       patches[k] = of_deletion("repository", fetched_repos[i], None)

\* A current repository with a webhook, a secret, a branch protection rule
\* and an environment and no expected repository at all: one REMOVE patch.
C29_Witness ==
    /\ Done
    /\ expected_repos = <<>>
    /\ Len(fetched_repos) = 1
    /\ fetched_repos[1].webhooks # <<>>
    /\ fetched_repos[1].secrets # <<>>
    /\ fetched_repos[1].branch_protection_rules # <<>>
    /\ fetched_repos[1].environments # <<>>
    /\ Len(patches) = 1
    /\ patches[1].patch_type = "REMOVE"
    /\ patches[1].model = "repository"

\* A current repository without a match beside one that is matched: the
\* REMOVE patch is one of several patches.
C29_WitnessAmongOthers ==
    /\ Done
    /\ Len(fetched_repos) = 2
    /\ \E i, j \in DOMAIN fetched_repos :
           /\ Bearing(fetched_repos[i].name) = {}
           /\ Counterpart(j) # 0
           /\ PatchesAbout(fetched_repos[j].name) # {}
           /\ Cardinality(PatchesAbout(fetched_repos[i].name)) = 1


(***************************************************************************)
(* The validation of a pull request (webapp/tasks/validate_pull_request)   *)
(***************************************************************************)
\* The exceptions a call into the provider or the libraries raises: a
\* RuntimeError, and one that is no RuntimeError.
PullRequestExceptions == {"RuntimeError", "OSError"}

\* The largest result of the plan operation.
MaxPlanResult == 2

\* A request the provider has answered.
Request(request, repo, ref, body) ==
    [request |-> request, repo |-> repo, ref |-> ref, body |-> body]

\* rest_api.commits.create_commit_status(org_id, repo_name, sha, state, ...)
create_commit_status(repo_name, sha, state) ==
    Request("create_commit_status", repo_name, sha, state)

\* No value is bound to the local variable yet.
Unbound == [state |-> "none"]

\* The state of the final status is "success" whatever the plan result (a
\* mutant of FinalStatus).
FinalStatusAlwaysSuccess(plan_result) == "success"

\* _update_final_status: the state of the status for a plan result.
FinalStatus(plan_result) == IF plan_result = 0 THEN "success" ELSE "error"

\* The ways the first part of validate_pull_request ends, up to the
\* pull request being at hand: [pc, result, calls].
LoadPullRequest(pull_request_or_number, repository) ==
    LET get_pull_request ==
            Request("get_pull_request", repository.name, pull_request_or_number.number, None)
    IN  {[pc |-> "done", result |-> Raised(e), calls |-> <<>>] :
            e \in PullRequestExceptions}
        \cup (IF pull_request_or_number.type = "int"
              THEN {[pc |-> "done", result |-> Returned(None),
                     calls |-> <<get_pull_request>>],
                    [pc |-> "loaded", result |-> Unbound,
                     calls |-> <<get_pull_request>>]}
              ELSE {[pc |-> "loaded", result |-> Unbound, calls |-> <<>>]})

\* The ways _execute_validation ends: [result, calls].
ExecuteValidation(pull_request, default_config_repo) ==
    LET base == Request("get_content", default_config_repo, pull_request.base_ref, None)
        head == Request("get_content", pull_request.head_repo, pull_request.head_ref, None)
        comment == Request("create_comment", default_config_repo, pull_request.number,
                           "validation")
    IN  {[result |-> Raised(e), calls |-> calls] :
            e \in PullRequestExceptions,
            calls \in {<<>>, <<base>>, <<base, head>>}}
        \cup {[result |-> Returned(0), calls |-> <<base, head>>]}
        \cup {[result |-> Returned(plan_result), calls |-> <<base, head, comment>>] :
                plan_result \in 0 .. MaxPlanResult}

\* The pull requests that are validated: the event's pull request or its
\* number, of a repository, with a head commit.
InitPullRequest ==
    /\ expected_repos = <<>>
    /\ current_repos = <<>>
    /\ fetched_repos = <<>>
    /\ context = DefaultContext
    /\ patches = <<>>
    /\ pc = "start"
    /\ outcome = NoOutcome
    /\ \E type \in {"PullRequest", "int"},
          name \in {".otterdog", "config"},
          sha \in {"sha1", "sha2"},
          head_repo \in {".otterdog", "fork"} :
           call = [op |-> "validate_pull_request",
                   org_id |-> "org",
                   pull_request_or_number |-> [type |-> type, number |-> "1"],
                   repository |-> [name |-> name],
                   default_config_repo |-> ".otterdog",
                   pull_request |-> [number |-> "1", head_sha |-> sha,
                                     head_ref |-> "patch", head_repo |-> head_repo,
                                     base_ref |-> "main"],
                   result |-> Unbound,
                   ex |-> Unbound]

\* validate_pull_request up to the log entry "validating pull request":
\* the REST API of the installation, and the pull request, loaded by its
\* number if a number was given (the run ends if the response is no valid
\* pull request).
GetPullRequest ==
    /\ pc = "start"
    /\ call.op = "validate_pull_request"
    /\ \E step \in LoadPullRequest(call.pull_request_or_number, call.repository) :
           /\ pc' = step.pc
           /\ outcome' = [result |-> step.result, calls |-> outcome.calls \o step.calls]
    /\ UNCHANGED <<expected_repos, current_repos, fetched_repos, context, patches, call>>

\* await _create_pending_status(...): posted, or an exception that leaves
\* validate_pull_request.
CreatePendingStatus ==
    /\ pc = "loaded"
    /\ \E step \in {[pc |-> "pending", result |-> Unbound,
                     calls |-> <<create_commit_status(call.repository.name,
                                     call.pull_request.head_sha, "pending")>>]}
                   \cup {[pc |-> "done", result |-> Raised(e), calls |-> <<>>] :
                            e \in PullRequestExceptions} :
           /\ pc' = step.pc
           /\ outcome' = [result |-> step.result, calls |-> outcome.calls \o step.calls]
    /\ UNCHANGED <<expected_repos, current_repos, fetched_repos, context, patches, call>>

\* result = await _execute_validation(...): a RuntimeError is caught, any
\* other exception leaves validate_pull_request.
CallExecuteValidation ==
    /\ pc = "pending"
    /\ \E step \in ExecuteValidation(call.pull_request, call.default_config_repo) :
           /\ pc' = IF step.result.state = "returned" THEN "validated"
                    ELSE IF step.result.exception = "RuntimeError" THEN "failed"
                    ELSE "done"
           /\ call' = IF step.result.state = "returned"
                      THEN [call EXCEPT !.result = step.result]
                      ELSE IF step.result.exception = "RuntimeError"
                      THEN [call EXCEPT !.ex = step.result]
                      ELSE call
           /\ outcome' = [result |-> IF pc' = "done" THEN step.result ELSE Unbound,
                          calls |-> outcome.calls \o step.calls]
    /\ UNCHANGED <<expected_repos, current_repos, fetched_repos, context, patches>>

\* await _update_final_status(..., result): posted, and the run returns; a
\* RuntimeError is caught, any other exception leaves validate_pull_request.
UpdateFinalStatus ==
    /\ pc = "validated"
    /\ \E step \in {[pc |-> "done", result |-> Returned(None), ex |-> Unbound,
                     calls |-> <<create_commit_status(call.repository.name,
                                     call.pull_request.head_sha,
                                     FinalStatus(call.result.value))>>],
                    [pc |-> "failed", result |-> Unbound, ex |-> Raised("RuntimeError"),
                     calls |-> <<>>],
                    [pc |-> "done", result |-> Raised("OSError"), ex |-> Unbound,
                     calls |-> <<>>]} :
           /\ pc' = step.pc
           /\ call' = [call EXCEPT !.ex = step.ex]
           /\ outcome' = [result |-> step.result, calls |-> outcome.calls \o step.calls]
    /\ UNCHANGED <<expected_repos, current_repos, fetched_repos, context, patches>>

\* except RuntimeError: await _create_failure_status(...): posted, and the
\* run returns, or an exception that leaves validate_pull_request.
CreateFailureStatus ==
    /\ pc = "failed"
    /\ \E step \in {[result |-> Returned(None),
                     calls |-> <<create_commit_status(call.repository.name,
                                     call.pull_request.head_sha, "failure")>>]}
                   \cup {[result |-> Raised(e), calls |-> <<>>] :
                            e \in PullRequestExceptions} :
           outcome' = [result |-> step.result, calls |-> outcome.calls \o step.calls]
    /\ pc' = "done"
    /\ UNCHANGED <<expected_repos, current_repos, fetched_repos, context, patches, call>>

NextPullRequest ==
    \/ GetPullRequest
    \/ CreatePendingStatus
    \/ CallExecuteValidation
    \/ UpdateFinalStatus
    \/ CreateFailureStatus

SpecPullRequest == InitPullRequest /\ [][NextPullRequest]_vars


(***************************************************************************)
(* Properties of the validation of a pull request                          *)
(***************************************************************************)
\* The positions of the commit statuses among the answered requests.
StatusRequests ==
    {k \in DOMAIN outcome.calls : outcome.calls[k].request = "create_commit_status"}

\* The states of the commit statuses posted, in order.
PostedStatuses ==
    LET IsStatus(r) == r.request = "create_commit_status"
        statuses == SelectSeq(outcome.calls, IsStatus)
    IN  [k \in DOMAIN statuses |-> statuses[k].body]

\* The positions of the requests that _execute_validation makes.
ValidationRequests ==
    {k \in DOMAIN outcome.calls :
        outcome.calls[k].request \in {"get_content", "create_comment"}}

\* _execute_validation has been entered.
ValidationStarted ==
    \/ pc \in {"validated", "failed"}
    \/ call.result # Unbound
    \/ call.ex # Unbound
    \/ ValidationRequests # {}

\* C30: in validate_pull_request the "pending" status is posted before the
\* validation starts; when the validation and the update of the final
\* status complete, exactly one status follows "pending", "success" if the
\* plan result is 0 and "error" otherwise; when the validation raises a
\* RuntimeError, "failure" is the status that follows and neither
\* "success" nor "error" is posted; so a run that posted "pending" and
\* returns has posted a status that is not "pending" after it, to the
\* commit and repository of "pending".
C30_CommitStatusProtocol ==
    call.op = "validate_pull_request" =>
        /\ ValidationStarted =>
               /\ PostedStatuses # <<>> /\ PostedStatuses[1] = "pending"
               /\ \A k \in ValidationRequests : \E j \in StatusRequests : j < k
        /\ Done /\ HasReturned /\ call.result # Unbound /\ call.ex = Unbound =>
               PostedStatuses
                   = <<"pending", IF call.result.value = 0 THEN "success" ELSE "error">>
        /\ call.ex # Unbound /\ call.result = Unbound =>
               /\ \A k \in DOMAIN PostedStatuses :
                      PostedStatuses[k] \notin {"success", "error"}
               /\ Done /\ HasReturned => PostedStatuses = <<"pending", "failure">>
        /\ Done /\ HasReturned /\ PostedStatuses # <<>> =>
               /\ Len(PostedStatuses) = 2
               /\ PostedStatuses[1] = "pending"
               /\ PostedStatuses[2] \in {"success", "error", "failure"}
               /\ \A j, k \in StatusRequests :
                      /\ outcome.calls[j].repo = outcome.calls[k].repo
                      /\ outcome.calls[j].ref = outcome.calls[k].ref

\* The plan result is 2 and the comment is made: "pending", then "error".
C30_Witness ==
    /\ Ran("validate_pull_request")
    /\ HasReturned
    /\ call.result = Returned(2)
    /\ Cardinality(ValidationRequests) = 3
    /\ PostedStatuses = <<"pending", "error">>

\* The configurations are identical: result 0, no comment, "success".
C30_WitnessSuccess ==
    /\ Ran("validate_pull_request")
    /\ HasReturned
    /\ call.result = Returned(0)
    /\ Cardinality(ValidationRequests) = 2
    /\ PostedStatuses = <<"pending", "success">>

\* The validation raises a RuntimeError: "pending", then "failure".
C30_WitnessFailure ==
    /\ Ran("validate_pull_request")
    /\ HasReturned
    /\ call.result = Unbound
    /\ call.ex = Raised("RuntimeError")
    /\ PostedStatuses = <<"pending", "failure">>

\* The update of the final status raises a RuntimeError after a plan
\* result of 0: "failure" follows "pending".
C30_WitnessFinalStatusRaises ==
    /\ Ran("validate_pull_request")
    /\ HasReturned
    /\ call.result = Returned(0)
    /\ call.ex = Raised("RuntimeError")
    /\ PostedStatuses = <<"pending", "failure">>

\* The response is no valid pull request: the run returns without a status.
C30_WitnessNoPullRequest ==
    /\ Ran("validate_pull_request")
    /\ HasReturned
    /\ PostedStatuses = <<>>
    /\ Len(outcome.calls) = 1

\* An exception that is no RuntimeError leaves the run after "pending".
C30_WitnessRaised ==
    /\ Ran("validate_pull_request")
    /\ outcome.result = Raised("OSError")
    /\ PostedStatuses = <<"pending">>

====
